---- MODULE Spec2Model ----
(***************************************************************************)
(* Koala flow engine: DAGFlow, DAGFlow.run and LocalExecutor.run_dagflow   *)
(* (src/src/koala/flow.py), RetryPolicy (src/src/koala/observability.py).  *)
(*                                                                         *)
(* GuardsRegistry (src/plugins/koala/guards.py).                           *)
(*                                                                         *)
(* One run is modelled: the dispatch loop thread of run_dagflow, the       *)
(* worker threads of its ThreadPoolExecutor and the passing of time; or    *)
(* one call of run_pre or run_post of a guards registry.                   *)
(* Step ids are numbers.  Python values are records with                   *)
(* a type tag t, an integer payload i and a string payload s.              *)
(***************************************************************************)
EXTENDS Integers, Sequences, FiniteSets, TLC

\* ------------------------------------------------------------------ bounds
\* the size of the flows explored: a flow's steps plus its edges, a step
\* that carries args counting twice
MaxSize == 5
MaxWorkers == 2
MaxAttempts == 2
\* the guards of a registry whose hooks are run on their own
MaxGuards == 3
\* the flows submitted to one Orchestrator
MaxRuns == 2
\* the events one call of StateMachine.run is given
MaxEvents == 3
\* the longest timeout of a step whose attempts are timed, the longest
\* backoff and the largest multiplier of its retry policy, and how long one
\* invocation of its action may take, in ticks of the clock
MaxTimeout == 3
MaxBackoff == 2
MaxMultiplier == 2
MaxDuration == 2
\* the schedules one Scheduler is given and the ticks one schedule fires
MaxSchedules == 2
MaxTicks == 2
\* the threads that call put or get on one Queue, and its largest maxsize
MaxCallers == 4
MaxQueueSize == 2

\* ------------------------------------------------------- program constants
DefaultRetryMaxAttempts == 1
FromDictDefaultMaxAttempts == 3
MinMaxAttempts == 1

\* ----------------------------------------------------------- Python values
NoneV == [t |-> "none", i |-> 0, s |-> ""]
AbsentV == [t |-> "absent", i |-> 0, s |-> ""]
IntV(n) == [t |-> "int", i |-> n, s |-> ""]
StrV(str) == [t |-> "str", i |-> 0, s |-> str]
ListV == [t |-> "list", i |-> 0, s |-> ""]
\* a tuple holding what ListV holds
TupleV == [t |-> "tuple", i |-> 0, s |-> ""]
\* the string "$result.<id>"
RefV(id) == [t |-> "ref", i |-> id, s |-> "$result."]
\* a dict given by the keys it holds (s) and the value under max_attempts (i)
EmptyDictV == [t |-> "dict", i |-> 0, s |-> ""]
RetryDictV(k) == [t |-> "dict", i |-> k, s |-> "max_attempts"]
BackoffOnlyDictV == [t |-> "dict", i |-> 0, s |-> "backoff"]

EmptyDict == [k \in {} |-> NoneV]
ReservedKeys == {"__timeout__", "__retry__"}

Range(f) == {f[k] : k \in DOMAIN f}

\* dict.get(key) with default None
DictGet(d, key) == IF key \in DOMAIN d THEN d[key] ELSE NoneV

\* dict after pop(key)
DictPop(d, key) == [k \in (DOMAIN d) \ {key} |-> d[k]]

\* ------------------------------------------------------------ flow inputs
\* the edge lists of at most k edges over the ids 1..n and one undeclared id
EdgeSeqs(n, k) == UNION {[1..m -> (1..(n + 1)) \X (1..(n + 1))] : m \in 0..k}

FlowSize(n, e, a) == n + e + 2 * a

\* values a step may carry under its keys
XRaws == {AbsentV, IntV(7)}
\* what a `$result.<id>` arg may name: the first step, or no step
RefRaws == {RefV(1), RefV(0)}
TimeoutRaws == {AbsentV, IntV(1), StrV("1"), StrV("abc"), ListV}
RetryRaws == {AbsentV, EmptyDictV, BackoffOnlyDictV, StrV("abc")}
                 \cup {RetryDictV(k) : k \in 0..MaxAttempts}

MkArgs(x, to, rt) ==
    LET keys == (IF x = AbsentV THEN {} ELSE {"x"})
                  \cup (IF to = AbsentV THEN {} ELSE {"__timeout__"})
                  \cup (IF rt = AbsentV THEN {} ELSE {"__retry__"})
    IN [k \in keys |-> IF k = "x" THEN x ELSE IF k = "__timeout__" THEN to ELSE rt]

\* the args a step may carry: any value under one key, and every key at once
ArgChoices ==
    {MkArgs(x, AbsentV, AbsentV) : x \in XRaws}
      \cup {MkArgs(AbsentV, to, AbsentV) : to \in TimeoutRaws}
      \cup {MkArgs(AbsentV, AbsentV, rt) : rt \in RetryRaws}
      \cup {MkArgs(IntV(7), to, rt) :
               to \in {IntV(1), StrV("abc")},
               rt \in {RetryDictV(MaxAttempts), StrV("abc")}}


\* what the registered action of a step does: its first `fails` invocations
\* raise and the next one returns, or every invocation raises
Behaviours == [always : {FALSE}, fails : 0..MaxAttempts]
                 \cup {[always |-> TRUE, fails |-> 0]}

InvocationFails(b, i) == b.always \/ i <= b.fails

\* the behaviours that differ within max_attempts invocations
BehavioursFor(max_attempts) ==
    {b \in Behaviours : b.always \/ b.fails < max_attempts}

\* the value the registered action of step nid returns for kwargs kw
ActionValue(nid, kw) ==
    IF "x" \in DOMAIN kw /\ kw["x"].t = "int" THEN IntV(kw["x"].i + nid)
    ELSE IntV(nid)

\* what a registered guard does: "check" overrides no hook's return value,
\* the others override one hook
GuardKinds == {"check", "pre_bump", "pre_double", "pre_none", "post_bump", "post_double"}

\* the registries of at most k guards
Registries(k) == UNION {[1..m -> GuardKinds] : m \in 0..k}

\* the registries handed to a run (none, or one guard whose post_step
\* rewrites the result)
RunRegistries == {<<>>, <<"post_bump">>}

\* the values a registry's hooks are run on, on their own
HookInputs(hook) ==
    IF hook = "pre"
    THEN {EmptyDict, MkArgs(IntV(1), AbsentV, AbsentV), MkArgs(IntV(7), IntV(1), AbsentV)}
    ELSE {NoneV, IntV(1), IntV(7)}

GuardError == [cls |-> "GuardError", kind |-> "guard", step |-> 0, tout |-> {}]

\* ------------------------------------------------------------------ guards
\* isinstance(v, dict), for v an args dict or a value
IsDict(v) == "t" \notin DOMAIN v

Bump(i) == i + 1
Double(i) == 2 * i

\* args holds an int under x
HasIntX(args) == IsDict(args) /\ "x" \in DOMAIN args /\ args["x"].t = "int"

\* what guard.pre_step returns for the args it is given
PreStep(kind, args) ==
    CASE kind = "pre_bump" /\ HasIntX(args) ->
               [args EXCEPT !["x"] = IntV(Bump(@.i))]
      [] kind = "pre_double" /\ HasIntX(args) ->
               [args EXCEPT !["x"] = IntV(Double(@.i))]
      [] kind = "pre_none" -> NoneV
      [] OTHER -> args

\* what guard.post_step returns for the result it is given
PostStep(kind, res) ==
    CASE kind = "post_bump" /\ res.t = "int" -> IntV(Bump(res.i))
      [] kind = "post_double" /\ res.t = "int" -> IntV(Double(res.i))
      [] OTHER -> res

\* every guard is handed the value the registry was called with
Feed_Original(ret, first) == first

\* `cur = g.pre_step(step_id, action, cur)`: the next guard is handed what
\* this one returned
Feed(ret, first) == ret

\* the loop `for g in self._guards` of run_pre and run_post from guard i on;
\* deny[i] says that guard i raises GuardError on this call; log is the
\* calls made so far
RECURSIVE RunHooks(_, _, _, _, _, _, _)
RunHooks(hook, gs, deny, i, cur, first, log) ==
    IF i > Len(gs) THEN [status |-> "returned", cur |-> cur, log |-> log]
    ELSE LET called == Append(log, [g |-> i, arg |-> cur])
         IN IF deny[i] THEN [status |-> "raised", cur |-> cur, log |-> called]
            ELSE LET ret == IF hook = "pre" THEN PreStep(gs[i], cur)
                            ELSE PostStep(gs[i], cur)
                 IN IF hook = "pre" /\ ~IsDict(ret)
                    THEN [status |-> "raised", cur |-> ret, log |-> called]
                    ELSE RunHooks(hook, gs, deny, i + 1, Feed(ret, first), first, called)

\* GuardsRegistry.run_pre
run_pre(gs, deny, args) == RunHooks("pre", gs, deny, 1, args, args, <<>>)

\* GuardsRegistry.run_post
run_post(gs, deny, res) == RunHooks("post", gs, deny, 1, res, res, <<>>)

\* which guards of a registry raise on one call
Denials(gs) == [1..Len(gs) -> BOOLEAN]

VARIABLES
    steps, edges, max_workers, arg_steps, ref_steps, guards, mode, gr,
    pc, incoming, outgoing, results, ready, futures, done, succq,
    step_timeout_by_nid, step_retry_by_nid, kwargs,
    workq, wstate, calls, behaviour, wres, over, late, args_of, error, order,
    trace,
    dflow, api, loaded,
    orch_max_workers, run_repo, rows, runs, orch_results, fut, poolq, task,
    run_results, caller, seen,
    states, start_state, events, ev_next, current, sm_results, invoked,
    clock, start_ts, timeout, retry_policy, n_attempts, backoff, sleeps, durations, outcome,
    timers, timer_state, tick_pc, tick_timer, cancel_pc, cancel_t, submits,
    maxsize, deque, cond_owner, cond_waiters, call_op, call_pc, got

vars == <<steps, edges, max_workers, arg_steps, ref_steps, guards, mode, gr,
          pc, incoming, outgoing, results, ready, futures, done, succq,
          step_timeout_by_nid, step_retry_by_nid, kwargs,
          workq, wstate, calls, behaviour, wres, over, late, args_of, error, order,
          trace,
          dflow, api, loaded,
          orch_max_workers, run_repo, rows, runs, orch_results, fut, poolq, task,
          run_results, caller, seen,
          states, start_state, events, ev_next, current, sm_results, invoked,
          clock, start_ts, timeout, retry_policy, n_attempts, backoff, sleeps, durations,
          outcome,
          timers, timer_state, tick_pc, tick_timer, cancel_pc, cancel_t, submits,
          maxsize, deque, cond_owner, cond_waiters, call_op, call_pc, got>>

flowVars == <<steps, edges, max_workers, arg_steps, ref_steps, guards, mode>>
graphVars == <<incoming, outgoing>>
stepVars == <<step_timeout_by_nid, step_retry_by_nid, kwargs, args_of>>
workerVars == <<workq, wstate, calls, behaviour, wres, late>>
loopVars == <<ready, futures, done, succq>>
\* a DAGFlow object, the last call of its API and the flow loads returned
apiVars == <<dflow, api, loaded>>
\* an Orchestrator, its pool, its background tasks, its repository and its caller
orchVars == <<orch_max_workers, run_repo, rows, runs, orch_results, fut, poolq,
              task, run_results, caller, seen>>
\* a StateMachine, the events of one call of its run, and the call's locals
smVars == <<states, start_state, events, ev_next, current, sm_results, invoked>>
\* one step of a LocalExecutor run with the clock: time.perf_counter(), the
\* step's start_ts_by_nid and step_timeout_by_nid entries, its retry policy,
\* the locals of _run_with_retries, the sleeps and invocations it made, and
\* what became of its future
timedVars == <<clock, start_ts, timeout, retry_policy, n_attempts, backoff, sleeps, durations,
               outcome>>
\* what is modelled apart from the run of a flow
\* a Scheduler: its _timers entry for each schedule, the schedule's Timer
\* objects, where the schedule's _tick stands and the Timer it made, where
\* the call of cancel for the schedule stands and the Timer it popped, and
\* the calls of submit_flow made for the schedule
schedVars == <<timers, timer_state, tick_pc, tick_timer, cancel_pc, cancel_t, submits>>
\* a Queue: _maxsize, _q, the thread that holds the lock of _cond and the
\* threads waiting on _cond; and the threads that call it: what each one
\* calls, where it stands, and what its get returned
queueVars == <<maxsize, deque, cond_owner, cond_waiters, call_op, call_pc, got>>
libVars == <<smVars, timedVars, schedVars, queueVars>>
\* all an executor call holds but where it stands and what it raised
runVars == <<steps, edges, max_workers, arg_steps, ref_steps, guards, mode, gr,
             incoming, outgoing, results, ready, futures, done, succq,
             step_timeout_by_nid, step_retry_by_nid, kwargs,
             workq, wstate, calls, behaviour, wres, over, late, args_of, order,
             trace>>
\* all an executor call holds
execVars == <<steps, edges, max_workers, arg_steps, ref_steps, guards, mode, gr,
              pc, incoming, outgoing, results, ready, futures, done, succq,
              step_timeout_by_nid, step_retry_by_nid, kwargs,
              workq, wstate, calls, behaviour, wres, over, late, args_of, error,
              order, trace>>

Nodes == Range(steps)

\* the executor whose run_dagflow is called: LocalExecutor ("local"),
\* DummyRemoteExecutor ("remote") or ProcessExecutor ("process"); "dagrun"
\* is DAGFlow.run
Local == mode = "local"
Pooled == mode \in {"local", "remote", "process"}

NoError == [cls |-> "none", kind |-> "none", step |-> 0, tout |-> {}]
FlowError(kind, nid, t) == [cls |-> "FlowError", kind |-> kind, step |-> nid, tout |-> t]
KeyError == [cls |-> "KeyError", kind |-> "unknown_step", step |-> 0, tout |-> {}]

\* no hooks run: the record of one call of run_pre or run_post
NoHooks == [hook |-> "none", input |-> NoneV, deny |-> <<>>, status |-> "idle",
            out |-> NoneV, log |-> <<>>]

\* ----------------------------------------------------------------- DAGFlow
\* the ids a call of the flow API may name; the last one is never a step's id
StepIds == 1..2
EndpointIds == 1..3
Versions == {"0.1.0", "0.2"}
DefaultVersion == "0.1.0"

\* the args a Step may be built with: none, an int, a tuple, a `$result` string
FlowArgs == {MkArgs(x, AbsentV, AbsentV) : x \in {AbsentV, IntV(7), TupleV, RefV(1)}}

\* the dataclasses Step and DAGFlow
Step(id, action, args) == [id |-> id, action |-> action, args |-> args]
DAGFlow(id, version) == [id |-> id, version |-> version, steps |-> <<>>, edges |-> <<>>]

NoFlow == DAGFlow("", "")
NoStep == Step(0, "", EmptyDict)
NoEdge == <<0, 0>>
\* the last call of the flow API: what was called, with what, and whether it raised
NoCall == [op |-> "none", step |-> NoStep, edge |-> NoEdge, raised |-> FALSE]

\* no step's id is ever found
HasStep_Never(flow, id) == FALSE

\* any(s.id == id for s in self.steps)
HasStep(flow, id) == \E i \in 1..Len(flow.steps) : flow.steps[i].id = id

\* DAGFlow.add_step: whether it raised FlowError, and the flow after the call
add_step(flow, step) ==
    IF HasStep(flow, step.id)
    THEN [raised |-> TRUE, flow |-> flow]
    ELSE [raised |-> FALSE, flow |-> [flow EXCEPT !.steps = Append(@, step)]]

\* DAGFlow.add_edge: whether it raised FlowError, and the flow after the call
add_edge(flow, from_id, to_id) ==
    IF ~HasStep(flow, from_id) THEN [raised |-> TRUE, flow |-> flow]
    ELSE IF ~HasStep(flow, to_id) THEN [raised |-> TRUE, flow |-> flow]
    ELSE [raised |-> FALSE,
          flow |-> [flow EXCEPT !.edges = Append(@, <<from_id, to_id>>)]]

\* a Python list of two items, as to_dict writes an edge and json.loads reads it
PyList(a, b) == [t |-> "list", items |-> <<a, b>>]

\* Step.to_dict
Step_to_dict(st) == [id |-> st.id, action |-> st.action, args |-> st.args]

\* Step.from_dict
Step_from_dict(d) ==
    Step(d.id, d.action, IF "args" \in DOMAIN d THEN d.args ELSE EmptyDict)

\* DAGFlow.to_dict
DAGFlow_to_dict(flow) ==
    [id |-> flow.id,
     version |-> flow.version,
     steps |-> [i \in 1..Len(flow.steps) |-> Step_to_dict(flow.steps[i])],
     edges |-> [i \in 1..Len(flow.edges) |->
                  PyList(flow.edges[i][1], flow.edges[i][2])]]

\* DAGFlow.from_dict: steps and edges are appended as they come
DAGFlow_from_dict(d) ==
    LET ds == IF "steps" \in DOMAIN d THEN d.steps ELSE <<>>
        de == IF "edges" \in DOMAIN d THEN d.edges ELSE <<>>
    IN [id |-> d.id,
        version |-> IF "version" \in DOMAIN d THEN d.version ELSE DefaultVersion,
        steps |-> [i \in 1..Len(ds) |-> Step_from_dict(ds[i])],
        edges |-> [i \in 1..Len(de) |-> <<de[i].items[1], de[i].items[2]>>]]

\* the JSON text json.dumps writes for a value, as the JSON value it denotes:
\* a tuple is written as an array, as a list is
JsonOfValue(v) ==
    [j |-> CASE v.t = "none" -> "null"
             [] v.t = "int" -> "number"
             [] v.t \in {"str", "ref"} -> "string"
             [] v.t \in {"list", "tuple"} -> "array"
             [] OTHER -> "object",
     i |-> v.i, s |-> v.s]

\* the value json.loads reads from a JSON value: an array is read as a list
ValueOfJson(jv) ==
    [t |-> CASE jv.j = "null" -> "none"
             [] jv.j = "number" -> "int"
             [] jv.j = "string" -> IF jv.s = "$result." THEN "ref" ELSE "str"
             [] jv.j = "array" -> "list"
             [] OTHER -> "dict",
     i |-> jv.i, s |-> jv.s]

\* json.dumps of the dict to_dict returns
json_dumps(d) ==
    [id |-> d.id,
     version |-> d.version,
     steps |-> [i \in 1..Len(d.steps) |->
                  [id |-> d.steps[i].id, action |-> d.steps[i].action,
                   args |-> [k \in DOMAIN d.steps[i].args |->
                               JsonOfValue(d.steps[i].args[k])]]],
     edges |-> [i \in 1..Len(d.edges) |->
                  [j |-> "array", items |-> d.edges[i].items]]]

\* json.loads of that text
json_loads(doc) ==
    [id |-> doc.id,
     version |-> doc.version,
     steps |-> [i \in 1..Len(doc.steps) |->
                  [id |-> doc.steps[i].id, action |-> doc.steps[i].action,
                   args |-> [k \in DOMAIN doc.steps[i].args |->
                               ValueOfJson(doc.steps[i].args[k])]]],
     edges |-> [i \in 1..Len(doc.edges) |->
                  PyList(doc.edges[i].items[1], doc.edges[i].items[2])]]

\* DAGFlow.dumps and DAGFlow.loads
dumps(flow) == json_dumps(DAGFlow_to_dict(flow))
loads(doc) == DAGFlow_from_dict(json_loads(doc))

\* payloads handed to DAGFlow.from_dict: a bare id, a step id given twice
\* (once without args), an edge to an id no step has, and a well-formed flow
Payloads ==
    {[id |-> "f"],
     [id |-> "f", version |-> "0.2",
      steps |-> <<[id |-> 1, action |-> "noop"],
                  [id |-> 1, action |-> "noop", args |-> MkArgs(IntV(7), AbsentV, AbsentV)]>>],
     [id |-> "f",
      steps |-> <<[id |-> 1, action |-> "noop"]>>,
      edges |-> <<PyList(1, 3)>>],
     [id |-> "f", version |-> "0.2",
      steps |-> <<[id |-> 1, action |-> "noop", args |-> EmptyDict],
                  [id |-> 2, action |-> "noop", args |-> EmptyDict]>>,
      edges |-> <<PyList(1, 2)>>]}

\* ------------------------------------------------------------ Orchestrator
\* run ids: uuid4().hex of the k-th submit_flow; 0 is an id never issued
RunIds == 1..MaxRuns
\* the ids a caller asks about: of the first run, of the last run, or never issued
PollIds == {0, 1, MaxRuns}

\* what get_result returns and the repository stores: None, a result map,
\* or {"error": str(e)}
NonePayload == [kind |-> "none", map |-> EmptyDict]
MapPayload(m) == [kind |-> "map", map |-> m]
ErrorPayload == [kind |-> "error", map |-> EmptyDict]

\* json.dumps(result) as save_result and fail_run store it, json.loads as
\* get_result reads it
JsonOfPayload(p) ==
    [kind |-> IF p.kind = "none" THEN "null" ELSE p.kind,
     map |-> [k \in DOMAIN p.map |-> JsonOfValue(p.map[k])]]
PayloadOfJson(jp) ==
    [kind |-> IF jp.kind = "null" THEN "none" ELSE jp.kind,
     map |-> [k \in DOMAIN jp.map |-> ValueOfJson(jp.map[k])]]

\* the flow of run r: step 1 carries an int of its own, step 2 takes step 1's
\* result; the flows of all runs use the same step ids
RunSteps == <<1, 2>>
RunArgs(r, nid) ==
    IF nid = 1 THEN MkArgs(IntV(10 * r), AbsentV, AbsentV)
    ELSE MkArgs(RefV(1), AbsentV, AbsentV)

\* the runs table: no row for a run id, and the row create_run inserts
NoRow == [status |-> "none", result |-> JsonOfPayload(NonePayload)]
NewRow == [status |-> "pending", result |-> JsonOfPayload(NonePayload)]

\* the caller asks about one run id, rid; nothing is returned for it yet
NotSeen(rid) ==
    [rid |-> rid, status |-> "never",
     result |-> [kind |-> "never", map |-> EmptyDict], src |-> "none"]
\* the caller is in no call; rid is the run id of its last submit_flow
Idle == [pc |-> "idle", rid |-> 0]

\* no Orchestrator is constructed
NoOrchestrator ==
    /\ orch_max_workers = 1
    /\ run_repo = "none"
    /\ rows = [r \in RunIds |-> NoRow]
    /\ runs = {}
    /\ orch_results = EmptyDict
    /\ fut = [r \in RunIds |-> "none"]
    /\ poolq = <<>>
    /\ task = [r \in RunIds |-> "none"]
    /\ run_results = [r \in RunIds |-> EmptyDict]
    /\ caller = Idle
    /\ seen = NotSeen(0)

\* ------------------------------------------------------------ StateMachine
\* the ids add_state is called with; NoState is Python's None
StateIds == 1..2
NoState == 0
\* an id no state of the machine has
UnknownState == 3
EventNames == {"go", "stop"}
\* State.action: None, or the name of an action
StateActions == {"none", "act"}
\* State.on: the dicts from events to next state ids
Transitions == UNION {[D -> StateIds \cup {UnknownState}] : D \in SUBSET EventNames}

\* the dataclass State
State(id, action, on) == [id |-> id, action |-> action, on |-> on]

\* the event lists one call of run is given
EventSeqs == UNION {[1..n -> EventNames] : n \in 0..MaxEvents}

\* any(s.id == state.id for s in self.states)
HasState(sts, id) == \E i \in 1..Len(sts) : sts[i].id = id

\* `states_map.get(current)`: the set holding the state, or {} for None
states_map_get(sts, id) == {sts[i] : i \in {j \in 1..Len(sts) : sts[j].id = id}}

\* what the registered action of a state returns for func(event=ev, state=current)
StateActionValue(ev, st) == [event |-> ev, state |-> st]

\* the machine stays where it is
NextState_Stay(on, ev, cur) == cur

\* `nxt = st.on.get(ev)` for an event that has a transition; `current = nxt`
NextState(on, ev, cur) == on[ev]

\* no StateMachine is built or run
NoStateMachine ==
    /\ states = <<>>
    /\ start_state = NoState
    /\ events = <<>>
    /\ ev_next = 1
    /\ current = NoState
    /\ sm_results = EmptyDict
    /\ invoked = <<>>

\* RetryPolicy(max_attempts, backoff, multiplier), with its delays
RetryPolicyOf(k, b, m) == [max_attempts |-> k, backoff |-> b, multiplier |-> m]

\* the backoff is never multiplied
NextBackoff_Constant(b, m) == b

\* `backoff = backoff * multiplier`
NextBackoff(b, m) == b * m

\* the future of the timed step: not submitted, in the pool, or done with a
\* value or with the exception of one invocation
NoOutcome == [state |-> "none", exc |-> 0]
Pending == [state |-> "pending", exc |-> 0]
Sleeping == [state |-> "sleeping", exc |-> 0]
Returned == [state |-> "ok", exc |-> 0]
Raised(attempt) == [state |-> "exc", exc |-> attempt]

\* no step is timed
NoTimedStep ==
    /\ clock = 0
    /\ start_ts = 0
    /\ timeout = {}
    /\ retry_policy = RetryPolicyOf(DefaultRetryMaxAttempts, 0, 1)
    /\ n_attempts = 0
    /\ backoff = 0
    /\ sleeps = <<>>
    /\ durations = <<>>
    /\ outcome = NoOutcome

\* ---------------------------------------------------------------- Scheduler
\* the calls of schedule_periodic, each with its own schedule_id
Schedules == 1..MaxSchedules
\* the Timer objects of one schedule: t0 and one for every tick
TimerIds == 1..(MaxTicks + 1)
\* _timers holds nothing under the schedule_id
NoTimer == 0

\* Scheduler(orchestrator)
NoScheduler ==
    /\ timers = [s \in Schedules |-> NoTimer]
    /\ timer_state = [s \in Schedules |-> [t \in TimerIds |-> "none"]]
    /\ tick_pc = [s \in Schedules |-> "idle"]
    /\ tick_timer = [s \in Schedules |-> NoTimer]
    /\ cancel_pc = [s \in Schedules |-> "idle"]
    /\ cancel_t = [s \in Schedules |-> NoTimer]
    /\ submits = [s \in Schedules |-> 0]

\* -------------------------------------------------------------------- Queue
Callers == 1..MaxCallers
NoCaller == 0

\* no Queue and no thread calling one
NoQueue ==
    /\ maxsize = 0
    /\ deque = <<>>
    /\ cond_owner = NoCaller
    /\ cond_waiters = <<>>
    /\ call_op = [c \in Callers |-> "none"]
    /\ call_pc = [c \in Callers |-> "done"]
    /\ got = [c \in Callers |-> 0]

\* nothing but flows
NoLib == NoStateMachine /\ NoTimedStep /\ NoScheduler /\ NoQueue

\* -------------------------------------------------------------- RetryPolicy
\* zero attempts are let through
ValidMaxAttempts_AllowZero(m) == m >= 0

\* RetryPolicy.__init__ accepts max_attempts
ValidMaxAttempts(m) == m >= MinMaxAttempts

RetryPolicy(m) == [max_attempts |-> m]

\* LocalExecutor.__init__: self.default_retry
default_retry == RetryPolicy(DefaultRetryMaxAttempts)

\* Python truthiness of a value (`not d` is ~Truthy(d))
Truthy(v) ==
    CASE v.t = "none" -> FALSE
      [] v.t = "int" -> v.i # 0
      [] v.t = "str" -> v.s # ""
      [] v.t = "dict" -> v.s # ""
      [] OTHER -> TRUE

\* RetryPolicy.from_dict as called in submit_step: the set holding the
\* policy, or {} where from_dict returns None or raises
from_dict(d) ==
    IF ~Truthy(d) THEN {}
    ELSE IF d.t # "dict" THEN {}
    ELSE LET m == IF d.s = "max_attempts" THEN d.i ELSE FromDictDefaultMaxAttempts
         IN IF ValidMaxAttempts(m) THEN {RetryPolicy(m)} ELSE {}

\* ------------------------------------------------------------------- Init
\* a flow, a registry of guards and a pool size for one call of `run` or
\* of `run_dagflow` of one of the executors in modes
InitFlowOf(modes) ==
    /\ mode \in modes
    /\ \E n \in 0..MaxSize :
         /\ steps = [i \in 1..n |-> i]
         /\ edges \in EdgeSeqs(n, MaxSize - n)
         /\ arg_steps \in {S \in SUBSET (1..n) :
                              FlowSize(n, Len(edges), Cardinality(S)) <= MaxSize}
         /\ ref_steps \in {S \in SUBSET ((1..n) \ arg_steps) :
                              FlowSize(n, Len(edges), Cardinality(arg_steps))
                                 + Cardinality(S) <= MaxSize}
    /\ guards \in {g \in RunRegistries :
                     /\ ~Local => g = <<>>
                     /\ FlowSize(Len(steps), Len(edges), Cardinality(arg_steps))
                           + Cardinality(ref_steps) + Len(g) <= MaxSize}
    /\ max_workers \in 1..MaxWorkers
    /\ pc = IF Pooled THEN "build" ELSE "toposort"
    /\ gr = NoHooks

InitFlow == InitFlowOf({"local", "dagrun"})

\* a registry and a value for its hooks to be run on
InitHooks ==
    /\ mode = "hooks"
    /\ steps = <<>>
    /\ edges = <<>>
    /\ arg_steps = {}
    /\ ref_steps = {}
    /\ max_workers = 1
    /\ guards \in Registries(MaxGuards)
    /\ pc = "hooks"
    /\ \E hook \in {"pre", "post"} :
         \E v \in HookInputs(hook) :
            gr = [NoHooks EXCEPT !.hook = hook, !.input = v]

\* what run_dagflow and DAGFlow.run hold before their first step
InitRun ==
    /\ incoming = [n \in Nodes |-> 0]
    /\ outgoing = [n \in Nodes |-> <<>>]
    /\ results = EmptyDict
    /\ ready = <<>>
    /\ futures = <<>>
    /\ done = {}
    /\ succq = <<>>
    /\ step_timeout_by_nid = [n \in Nodes |-> {}]
    /\ step_retry_by_nid = [n \in Nodes |-> default_retry]
    /\ kwargs = [n \in Nodes |-> EmptyDict]
    /\ workq = <<>>
    /\ wstate = [n \in Nodes |-> "none"]
    /\ calls = [n \in Nodes |-> 0]
    /\ behaviour = [n \in Nodes |-> [always |-> FALSE, fails |-> 0]]
    /\ wres = [n \in Nodes |-> NoneV]
    /\ over = [n \in Nodes |-> FALSE]
    /\ late = [n \in Nodes |-> FALSE]
    /\ args_of = [n \in Nodes |-> EmptyDict]
    /\ error = NoError
    /\ order = <<>>
    /\ trace = <<>>

\* no executor is called
NoRun ==
    /\ mode = "none"
    /\ steps = <<>>
    /\ edges = <<>>
    /\ arg_steps = {}
    /\ ref_steps = {}
    /\ guards = <<>>
    /\ max_workers = 1
    /\ gr = NoHooks
    /\ InitRun

\* no DAGFlow is built or serialized
NoFlowApi ==
    /\ dflow = NoFlow
    /\ api = NoCall
    /\ loaded = NoFlow

Init ==
    /\ InitFlow \/ InitHooks
    /\ InitRun
    /\ NoFlowApi
    /\ NoOrchestrator
    /\ NoLib

\* ------------------------------------------------------------------ tracer
\* an event of the run's trace; the flow's own events carry no step id
Event(name, step_id) == [event |-> name, step_id |-> step_id]

\* nothing is recorded
record_Dropped(tr, name, step_id) == tr

\* Tracer.record: the event is appended to the list of the run's trace
record(tr, name, step_id) == Append(tr, Event(name, step_id))

\* the step_retry events of attempts 2..attempts of _run_with_retries
RECURSIVE RecordRetries(_, _, _)
RecordRetries(tr, nid, attempts) ==
    IF attempts <= 1 THEN tr
    ELSE record(RecordRetries(tr, nid, attempts - 1), "step_retry", nid)

\* ------------------------------------------------------------ graph build
UnknownEndpoint(e) == e[1] \notin Nodes \/ e[2] \notin Nodes

HasUnknownEndpoint == \E i \in DOMAIN edges : UnknownEndpoint(edges[i])

InDegree(n) == Cardinality({i \in DOMAIN edges : edges[i][2] = n})

\* no step has successors: completions release nothing
Successors_None(n) == <<>>

Successors(n) ==
    LET es == SelectSeq(edges, LAMBDA e : e[1] = n)
    IN [i \in 1..Len(es) |-> es[i][2]]

\* a step is taken as ready while one predecessor is still outstanding
IsReady_OffByOne(deg) == deg <= 1

\* the test that makes a step ready
IsReady(deg) == deg = 0

\* only the first ready step is taken
ReadyNodes_FirstOnly(inc) ==
    LET r == SelectSeq(steps, LAMBDA n : inc[n] = 0)
    IN IF r = <<>> THEN r ELSE <<Head(r)>>

ReadyNodes(inc) == SelectSeq(steps, LAMBDA n : IsReady(inc[n]))

\* the error is noted and the dispatch loop goes on with its batch
Raise_Swallowed(e, to) ==
    /\ error' = e
    /\ pc' = "process"

Raise(e, to) ==
    /\ error' = e
    /\ pc' = to

BuildGraph ==
    /\ pc = "build"
    /\ IF HasUnknownEndpoint
       THEN /\ Raise(KeyError, "raised")
            /\ UNCHANGED <<graphVars, ready, trace>>
       ELSE /\ incoming' = [n \in Nodes |-> InDegree(n)]
            /\ outgoing' = [n \in Nodes |-> Successors(n)]
            /\ trace' = IF Local THEN record(trace, "flow_started", 0) ELSE trace
            /\ ready' = ReadyNodes(incoming')
            /\ pc' = "submit_initial"
            /\ UNCHANGED error
    /\ UNCHANGED <<flowVars, apiVars, orchVars, libVars, gr, results, futures, done, succq, stepVars,
                   workerVars, over, order>>

\* ------------------------------------------------------------ submit_step
\* the args of step nid of the flow: a step of arg_steps carries any of
\* ArgChoices, a step of ref_steps a reference, the others none
StepArgs(nid) ==
    IF nid \in arg_steps THEN ArgChoices
    ELSE IF nid \in ref_steps
    THEN {MkArgs(x, AbsentV, AbsentV) : x \in RefRaws}
    ELSE {EmptyDict}

ResolveArgs(args, res) ==
    [k \in DOMAIN args |->
        IF args[k].t = "ref" THEN DictGet(res, args[k].i) ELSE args[k]]

NumericStrings == {"1"}
StrToFloat(str) == CASE str = "1" -> 1

\* the timeout extracted from the resolved args: {} is None
ParseTimeout(resolved) ==
    IF "__timeout__" \notin DOMAIN resolved THEN {}
    ELSE LET raw == resolved["__timeout__"]
         IN CASE raw.t = "int" -> {raw.i}
              [] raw.t = "str" ->
                   IF raw.s \in NumericStrings THEN {StrToFloat(raw.s)} ELSE {}
              [] OTHER -> {}

\* the retry policy extracted from the resolved args
ParseRetry(resolved) ==
    LET parsed == IF "__retry__" \in DOMAIN resolved
                  THEN from_dict(resolved["__retry__"])
                  ELSE {}
    IN IF parsed = {} THEN default_retry ELSE CHOOSE p \in parsed : TRUE

\* only the timeout key is popped
StripReserved_TimeoutOnly(resolved) == DictPop(resolved, "__timeout__")

\* resolved_args after the two pops: what the action is called with
StripReserved(resolved) == DictPop(DictPop(resolved, "__timeout__"), "__retry__")

\* submit_step(nid); okpc is where the caller goes on when it returns.
\* LocalExecutor and ProcessExecutor look the action up here;
\* DummyRemoteExecutor does in the worker, where a missing action is a
\* failed invocation.  Only LocalExecutor runs guards, records the event and
\* takes the reserved keys out of the args.
SubmitStep(nid, okpc) ==
    \E registered \in {TRUE} \cup {b \in {FALSE} : mode # "remote"},
       args \in StepArgs(nid), deny \in Denials(guards) :
        LET pre == run_pre(guards, deny, ResolveArgs(args, results))
            resolved == pre.cur
        IN IF ~registered
           THEN /\ Raise(FlowError("action_not_found", nid, {}), "unwind")
                /\ UNCHANGED <<futures, stepVars, workq, wstate, over, trace>>
           ELSE IF pre.status = "raised"
           THEN /\ Raise(FlowError("guard_pre", nid, {}), "unwind")
                /\ UNCHANGED <<futures, stepVars, workq, wstate, over, trace>>
           ELSE /\ trace' = IF Local THEN record(trace, "step_started", nid) ELSE trace
                /\ step_timeout_by_nid' =
                       [step_timeout_by_nid EXCEPT ![nid] =
                           IF Local THEN ParseTimeout(resolved) ELSE {}]
                /\ step_retry_by_nid' =
                       [step_retry_by_nid EXCEPT ![nid] =
                           IF Local THEN ParseRetry(resolved) ELSE default_retry]
                /\ kwargs' = [kwargs EXCEPT ![nid] =
                                 IF Local THEN StripReserved(resolved) ELSE resolved]
                /\ args_of' = [args_of EXCEPT ![nid] = args]
                /\ over' = [over EXCEPT ![nid] = FALSE]
                /\ futures' = Append(futures, nid)
                /\ workq' = Append(workq, nid)
                /\ wstate' = [wstate EXCEPT ![nid] = "queued"]
                /\ pc' = okpc
                /\ UNCHANGED error

SubmitInitial ==
    /\ pc = "submit_initial"
    /\ ready # <<>>
    /\ SubmitStep(Head(ready), "submit_initial")
    /\ ready' = Tail(ready)
    /\ UNCHANGED <<flowVars, apiVars, orchVars, libVars, gr, graphVars, results, done, succq, calls,
                   behaviour, wres, late, order>>

SubmitInitialEnd ==
    /\ pc = "submit_initial"
    /\ ready = <<>>
    /\ pc' = "loop"
    /\ UNCHANGED <<flowVars, apiVars, orchVars, libVars, trace, gr, graphVars, results, loopVars, stepVars,
                   workerVars, over, error, order>>

\* ------------------------------------------------------------ worker pool
Running == {n \in Nodes : wstate[n] = "running"}
Finished(n) == wstate[n] \in {"ok", "exc"}

StartWork(n) ==
    /\ pc \notin {"returned", "raised"}
    /\ workq # <<>>
    /\ Head(workq) = n
    /\ Cardinality(Running) < max_workers
    /\ workq' = Tail(workq)
    /\ wstate' = [wstate EXCEPT ![n] = "running"]
    /\ UNCHANGED <<flowVars, apiVars, orchVars, libVars, trace, gr, pc, graphVars, results, loopVars, stepVars,
                   calls, behaviour, wres, late, over, error, order>>

\* the loop gives up one attempt early
LoopContinues_OneShort(attempts, max_attempts) == attempts + 1 < max_attempts

\* `while attempts < max_attempts`
LoopContinues(attempts, max_attempts) == attempts < max_attempts

\* `>` for `>=`: the last failure is swallowed
Exhausted_Strict(attempts, max_attempts) == attempts > max_attempts

\* `if attempts >= max_attempts: raise`
Exhausted(attempts, max_attempts) == attempts >= max_attempts

RECURSIVE RetryLoop(_, _, _)
RetryLoop(attempts, max_attempts, b) ==
    IF ~LoopContinues(attempts, max_attempts)
    THEN [attempts |-> attempts, outcome |-> "fell_through"]
    ELSE LET a == attempts + 1
         IN IF ~InvocationFails(b, a) THEN [attempts |-> a, outcome |-> "ok"]
            ELSE IF Exhausted(a, max_attempts)
                 THEN [attempts |-> a, outcome |-> "exc"]
                 ELSE RetryLoop(a, max_attempts, b)

\* _run_with_retries for a policy and an action behaviour
RunWithRetries(rp, b) == RetryLoop(0, rp.max_attempts, b)

\* the worker stores what the action returned in the results map itself
FinishWork_StoresResult(n) ==
    /\ wstate[n] = "running"
    /\ \E b \in BehavioursFor(step_retry_by_nid[n].max_attempts) :
         LET r == RunWithRetries(step_retry_by_nid[n], b)
         IN /\ behaviour' = [behaviour EXCEPT ![n] = b]
            /\ calls' = [calls EXCEPT ![n] = r.attempts]
            /\ wstate' = [wstate EXCEPT ![n] =
                              IF r.outcome = "exc" THEN "exc" ELSE "ok"]
            /\ wres' = [wres EXCEPT ![n] =
                            IF r.outcome = "ok" THEN ActionValue(n, kwargs[n])
                            ELSE NoneV]
            /\ results' = [k \in DOMAIN results \cup {n} |->
                              IF k = n THEN wres'[n] ELSE results[k]]
            /\ trace' = RecordRetries(trace, n, r.attempts)
    /\ late' = [late EXCEPT ![n] = over[n]]
    /\ UNCHANGED <<flowVars, apiVars, orchVars, libVars, gr, pc, graphVars, loopVars, stepVars,
                   workq, over, error, order>>

FinishWork(n) ==
    /\ wstate[n] = "running"
    /\ \E b \in BehavioursFor(step_retry_by_nid[n].max_attempts) :
         LET r == RunWithRetries(step_retry_by_nid[n], b)
         IN /\ behaviour' = [behaviour EXCEPT ![n] = b]
            /\ calls' = [calls EXCEPT ![n] = r.attempts]
            /\ wstate' = [wstate EXCEPT ![n] =
                              IF r.outcome = "exc" THEN "exc" ELSE "ok"]
            /\ wres' = [wres EXCEPT ![n] =
                            IF r.outcome = "ok" THEN ActionValue(n, kwargs[n])
                            ELSE NoneV]
            /\ trace' = RecordRetries(trace, n, r.attempts)
    \* whether the step's timeout had gone by when its action finished
    /\ late' = [late EXCEPT ![n] = over[n]]
    /\ UNCHANGED <<flowVars, apiVars, orchVars, libVars, gr, pc, graphVars, results, loopVars, stepVars,
                   workq, over, error, order>>

\* time passes: more than the step's timeout has gone by since its dispatch
Tick(n) ==
    /\ pc \notin {"returned", "raised"}
    /\ \E i \in DOMAIN futures : futures[i] = n
    /\ step_timeout_by_nid[n] # {}
    /\ ~over[n]
    /\ over' = [over EXCEPT ![n] = TRUE]
    /\ UNCHANGED <<flowVars, apiVars, orchVars, libVars, trace, gr, pc, graphVars, results, loopVars, stepVars,
                   workerVars, error, order>>

\* ---------------------------------------------------------- dispatch loop
SeqRemove(q, n) == SelectSeq(q, LAMBDA m : m # n)

\* `tout is not None and t0 is not None and (now - t0) > tout`
TimedOut(n) == step_timeout_by_nid[n] # {} /\ over[n]

\* the final check is skipped
AllExecuted_Skipped == TRUE

\* `while futures:` is false: the pool is left and the final check made
AllExecuted == Cardinality(DOMAIN results) = Cardinality(Nodes)

LoopExit ==
    /\ pc = "loop"
    /\ futures = <<>>
    /\ IF AllExecuted
       THEN /\ trace' = IF Local THEN record(trace, "flow_completed", 0) ELSE trace
            /\ pc' = "returned"
            /\ UNCHANGED error
       ELSE /\ Raise(FlowError("not_all_executed", 0, {}), "raised")
            /\ UNCHANGED trace
    /\ UNCHANGED <<flowVars, apiVars, orchVars, libVars, gr, graphVars, results, loopVars, stepVars,
                   workerVars, over, order>>

\* the loop waits for the step it submitted first
WaitReturns_FirstOnly == Finished(Head(futures))

\* `return_when=FIRST_COMPLETED`: wait returns once any future is done
WaitReturns == \E i \in DOMAIN futures : Finished(futures[i])

\* concurrent.futures.wait returns, then the timeout scan over futures
WaitAny ==
    /\ pc = "loop"
    /\ futures # <<>>
    /\ WaitReturns
    /\ LET overdue == SelectSeq(futures, TimedOut)
       IN IF overdue # <<>>
          THEN LET n == Head(overdue)
               IN /\ trace' = record(trace, "step_timeout", n)
                  /\ Raise(FlowError("timeout", n, step_timeout_by_nid[n]), "unwind")
                  \* fut_obj.cancel() takes a future that has not started
                  /\ IF wstate[n] = "queued"
                     THEN /\ wstate' = [wstate EXCEPT ![n] = "cancelled"]
                          /\ workq' = SeqRemove(workq, n)
                     ELSE UNCHANGED <<wstate, workq>>
                  /\ UNCHANGED done
          ELSE /\ done' = {n \in Range(futures) : Finished(n)}
               /\ pc' = "process"
               /\ UNCHANGED <<error, wstate, workq, trace>>
    /\ UNCHANGED <<flowVars, apiVars, orchVars, libVars, gr, graphVars, results, ready, futures, succq,
                   stepVars, calls, behaviour, wres, late, over, order>>

\* the raw value the future gave is recorded
Recorded_Raw(raw, guarded) == raw

\* `results[nid] = res`, res being what run_post returned
Recorded(raw, guarded) == guarded

\* one iteration of `for fut in done`, up to `results[nid] = res`
ProcessDone(nid) ==
    /\ pc = "process"
    /\ nid \in done
    /\ done' = done \ {nid}
    /\ futures' = SeqRemove(futures, nid)
    /\ \E deny \in Denials(guards) :
         LET post == run_post(guards, deny, wres[nid])
         IN
         IF wstate[nid] = "exc"
         THEN /\ trace' = IF Local THEN record(trace, "step_failed", nid) ELSE trace
              /\ Raise(FlowError("step_failed", nid, {}), "unwind")
              /\ UNCHANGED <<results, succq>>
         ELSE IF post.status = "raised"
         THEN /\ Raise(FlowError("guard_post", nid, {}), "unwind")
              /\ UNCHANGED <<results, succq, trace>>
         ELSE /\ trace' = IF Local THEN record(trace, "step_completed", nid) ELSE trace
              /\ results' = [k \in DOMAIN results \cup {nid} |->
                                IF k = nid THEN Recorded(wres[nid], post.cur)
                                ELSE results[k]]
              /\ succq' = outgoing[nid]
              /\ pc' = "release"
              /\ UNCHANGED error
    \* start_ts_by_nid.pop(nid): the step's clock is gone
    /\ over' = [over EXCEPT ![nid] = FALSE]
    /\ UNCHANGED <<flowVars, apiVars, orchVars, libVars, gr, graphVars, ready, stepVars, workerVars, order>>

\* `for fut in done` is exhausted
ProcessEnd ==
    /\ pc = "process"
    /\ done = {}
    /\ pc' = "loop"
    /\ UNCHANGED <<flowVars, apiVars, orchVars, libVars, trace, gr, graphVars, results, loopVars, stepVars,
                   workerVars, over, error, order>>

\* one iteration of `for m in outgoing.get(nid, [])`
Release ==
    /\ pc = "release"
    /\ succq # <<>>
    /\ LET m == Head(succq)
       IN /\ incoming' = [incoming EXCEPT ![m] = @ - 1]
          /\ succq' = Tail(succq)
          /\ IF IsReady(incoming'[m])
             THEN SubmitStep(m, "release")
             ELSE UNCHANGED <<pc, error, futures, stepVars, workq, wstate, over, trace>>
    /\ UNCHANGED <<flowVars, apiVars, orchVars, libVars, gr, outgoing, results, ready, done, calls, behaviour,
                   wres, late, order>>

ReleaseEnd ==
    /\ pc = "release"
    /\ succq = <<>>
    /\ pc' = "process"
    /\ UNCHANGED <<flowVars, apiVars, orchVars, libVars, trace, gr, graphVars, results, loopVars, stepVars,
                   workerVars, over, error, order>>

\* an exception leaves the `with` block: ThreadPoolExecutor.__exit__ waits
\* for every work item that is still queued or running
\* shutdown does not wait
PoolIdle_NoWait == TRUE

PoolIdle == \A n \in Nodes : wstate[n] \notin {"queued", "running"}

Unwind ==
    /\ pc = "unwind"
    /\ PoolIdle
    /\ pc' = "raised"
    /\ UNCHANGED <<flowVars, apiVars, orchVars, libVars, trace, gr, graphVars, results, loopVars, stepVars,
                   workerVars, over, error, order>>

\* ------------------------------------------------------------ DAGFlow.run
\* the `== 0` test of DAGFlow._toposort
NoIncoming(deg) == deg = 0

RECURSIVE Relax(_, _, _)
Relax(succs, inc, queue) ==
    IF succs = <<>> THEN [inc |-> inc, queue |-> queue]
    ELSE LET m == Head(succs)
             inc2 == [inc EXCEPT ![m] = @ - 1]
         IN Relax(Tail(succs), inc2,
                  IF NoIncoming(inc2[m]) THEN Append(queue, m) ELSE queue)

RECURSIVE Kahn(_, _, _)
Kahn(queue, inc, acc) ==
    IF queue = <<>> THEN acc
    ELSE LET n == Head(queue)
             r == Relax(Successors(n), inc, Tail(queue))
         IN Kahn(r.queue, r.inc, Append(acc, n))

\* DAGFlow._toposort, for a flow whose edges join declared steps
Toposort ==
    LET inc == [n \in Nodes |-> InDegree(n)]
    IN Kahn(SelectSeq(steps, LAMBDA n : NoIncoming(inc[n])), inc, <<>>)

\* the loop `for step in order` of DAGFlow.run from the map res on, for
\* actions that return
RECURSIVE SeqRun(_, _)
SeqRun(ord, res) ==
    IF ord = <<>> THEN res
    ELSE LET nid == Head(ord)
             val == ActionValue(nid, ResolveArgs(args_of[nid], res))
         IN SeqRun(Tail(ord), [k \in DOMAIN res \cup {nid} |->
                                  IF k = nid THEN val ELSE res[k]])

\* the map DAGFlow.run returns for the flow, given the args of its steps
DagRunResults == SeqRun(Toposort, EmptyDict)

DagRunToposort ==
    /\ pc = "toposort"
    /\ IF HasUnknownEndpoint
       THEN Raise(KeyError, "raised") /\ UNCHANGED order
       ELSE IF Len(Toposort) # Len(steps)
       THEN Raise(FlowError("cycle", 0, {}), "raised") /\ UNCHANGED order
       ELSE /\ order' = Toposort
            /\ pc' = "seq_run"
            /\ UNCHANGED error
    /\ UNCHANGED <<flowVars, apiVars, orchVars, libVars, trace, gr, graphVars, results, loopVars, stepVars,
                   workerVars, over>>

\* one iteration of `for step in order` of DAGFlow.run
DagRunStep ==
    /\ pc = "seq_run"
    /\ order # <<>>
    /\ order' = Tail(order)
    /\ LET nid == Head(order)
       IN \E registered \in BOOLEAN, args \in StepArgs(nid), b \in BehavioursFor(1) :
            LET resolved == ResolveArgs(args, results)
            IN IF ~registered
               THEN /\ Raise(FlowError("action_not_found", nid, {}), "raised")
                    /\ UNCHANGED <<results, kwargs, args_of, calls, behaviour, wres>>
               ELSE /\ kwargs' = [kwargs EXCEPT ![nid] = resolved]
                    /\ args_of' = [args_of EXCEPT ![nid] = args]
                    /\ calls' = [calls EXCEPT ![nid] = 1]
                    /\ behaviour' = [behaviour EXCEPT ![nid] = b]
                    /\ IF InvocationFails(b, 1)
                       THEN /\ Raise([cls |-> "Exception", kind |-> "action_raised",
                                      step |-> nid, tout |-> {}], "raised")
                            /\ UNCHANGED <<results, wres>>
                       ELSE /\ wres' = [wres EXCEPT ![nid] = ActionValue(nid, resolved)]
                            /\ results' = [k \in DOMAIN results \cup {nid} |->
                                   IF k = nid THEN ActionValue(nid, resolved)
                                   ELSE results[k]]
                            /\ UNCHANGED <<pc, error>>
    /\ UNCHANGED <<flowVars, apiVars, orchVars, libVars, trace, gr, graphVars, loopVars, step_timeout_by_nid,
                   step_retry_by_nid, workq, wstate, late, over>>

DagRunReturn ==
    /\ pc = "seq_run"
    /\ order = <<>>
    /\ pc' = "returned"
    /\ UNCHANGED <<flowVars, apiVars, orchVars, libVars, trace, gr, graphVars, results, loopVars, stepVars,
                   workerVars, over, error, order>>

\* ------------------------------------------------- run_pre, run_post alone
\* one call of guards.run_pre or guards.run_post
HooksRun ==
    /\ pc = "hooks"
    /\ \E deny \in Denials(guards) :
         LET r == IF gr.hook = "pre" THEN run_pre(guards, deny, gr.input)
                  ELSE run_post(guards, deny, gr.input)
         IN /\ gr' = [gr EXCEPT !.deny = deny, !.status = r.status,
                                !.out = r.cur, !.log = r.log]
            /\ IF r.status = "raised"
               THEN Raise(GuardError, "raised")
               ELSE pc' = "returned" /\ UNCHANGED error
    /\ UNCHANGED <<flowVars, apiVars, orchVars, libVars, trace, graphVars, results, loopVars, stepVars,
                   workerVars, over, order>>

\* ------------------------------------------------------------ the flow API
\* room for one more step or edge
FlowRoom == Len(dflow.steps) + Len(dflow.edges) < MaxSize

\* flow.add_step(Step(id, action, args))
AddStep ==
    /\ pc = "api"
    /\ FlowRoom
    /\ \E id \in StepIds, args \in FlowArgs :
         LET st == Step(id, "noop", args)
             r == add_step(dflow, st)
         IN /\ dflow' = r.flow
            /\ api' = [NoCall EXCEPT !.op = "add_step", !.step = st,
                                     !.raised = r.raised]
    /\ loaded' = NoFlow
    /\ UNCHANGED <<execVars, orchVars, libVars>>

\* flow.add_edge(from_id, to_id)
AddEdge ==
    /\ pc = "api"
    /\ FlowRoom
    /\ \E from_id \in EndpointIds, to_id \in EndpointIds :
         LET r == add_edge(dflow, from_id, to_id)
         IN /\ dflow' = r.flow
            /\ api' = [NoCall EXCEPT !.op = "add_edge",
                                     !.edge = <<from_id, to_id>>,
                                     !.raised = r.raised]
    /\ loaded' = NoFlow
    /\ UNCHANGED <<execVars, orchVars, libVars>>

\* FlowBuilder.step(id, action, **kwargs) on the builder's flow
BuilderStep ==
    /\ pc = "api"
    /\ FlowRoom
    /\ \E id \in StepIds, kw \in FlowArgs :
         LET st == Step(id, "noop", kw)
             r == add_step(dflow, st)
         IN /\ dflow' = r.flow
            /\ api' = [NoCall EXCEPT !.op = "step", !.step = st,
                                     !.raised = r.raised]
    /\ loaded' = NoFlow
    /\ UNCHANGED <<execVars, orchVars, libVars>>

\* FlowBuilder.edge(from_id, to_id) on the builder's flow
BuilderEdge ==
    /\ pc = "api"
    /\ FlowRoom
    /\ \E from_id \in EndpointIds, to_id \in EndpointIds :
         LET r == add_edge(dflow, from_id, to_id)
         IN /\ dflow' = r.flow
            /\ api' = [NoCall EXCEPT !.op = "edge",
                                     !.edge = <<from_id, to_id>>,
                                     !.raised = r.raised]
    /\ loaded' = NoFlow
    /\ UNCHANGED <<execVars, orchVars, libVars>>

\* flow = DAGFlow.from_dict(payload)
FromDict ==
    /\ pc = "api"
    /\ \E d \in Payloads : dflow' = DAGFlow_from_dict(d)
    /\ api' = [NoCall EXCEPT !.op = "from_dict"]
    /\ loaded' = NoFlow
    /\ UNCHANGED <<execVars, orchVars, libVars>>

\* DAGFlow.loads(flow.dumps())
Loads ==
    /\ pc = "api"
    /\ loaded' = loads(dumps(dflow))
    /\ api' = [NoCall EXCEPT !.op = "loads"]
    /\ UNCHANGED <<execVars, orchVars, libVars, dflow>>

\* ------------------------------------------------------- the Orchestrator
RepoConfigured == run_repo # "none"

\* a future that has started counts as done
FutDone_Started(f) == f # "pending"

\* Future.running() and Future.done()
FutRunning(f) == f = "running"
FutDone(f) == f = "finished"

\* a pool thread is not given back when its future is finished
Busy_Leaky == {r \in RunIds : fut[r] \in {"running", "finished"}}

\* the runs a pool thread is executing
Busy == {r \in RunIds : fut[r] = "running"}

\* submit_flow up to self._executor.submit(_run): the future is created and
\* queued for the pool
SubmitFlow ==
    /\ pc = "orch"
    /\ caller.pc = "idle"
    /\ \E r \in RunIds :
         /\ fut[r] = "none"
         /\ \A q \in RunIds : q < r => fut[q] # "none"
         /\ fut' = [fut EXCEPT ![r] = "pending"]
         /\ poolq' = Append(poolq, r)
         /\ task' = [task EXCEPT ![r] = "queued"]
         /\ caller' = [pc |-> "register", rid |-> r]
    /\ UNCHANGED <<execVars, apiVars, libVars, orch_max_workers, run_repo, rows, runs,
                   orch_results, run_results, seen>>

\* submit_flow: self._runs[run_id] = fut; return run_id
Register ==
    /\ caller.pc = "register"
    /\ runs' = runs \cup {caller.rid}
    /\ caller' = [caller EXCEPT !.pc = "idle"]
    /\ UNCHANGED <<execVars, apiVars, libVars, orch_max_workers, run_repo, rows,
                   orch_results, fut, poolq, task, run_results, seen>>

\* a free pool thread takes the oldest queued future and enters _run
TaskStart(r) ==
    /\ poolq # <<>>
    /\ Head(poolq) = r
    /\ Cardinality(Busy) < orch_max_workers
    /\ poolq' = Tail(poolq)
    /\ fut' = [fut EXCEPT ![r] = "running"]
    /\ task' = [task EXCEPT ![r] = IF RepoConfigured THEN "create_run"
                                   ELSE "run_dagflow"]
    /\ UNCHANGED <<execVars, apiVars, libVars, orch_max_workers, run_repo, rows, runs,
                   orch_results, run_results, caller, seen>>

\* _run: self._run_repo.create_run(...); when it raises, update_status is
\* skipped with it
CreateRun(r) ==
    /\ task[r] = "create_run"
    /\ \E ok \in BOOLEAN :
         IF ok
         THEN /\ rows' = [rows EXCEPT ![r] = NewRow]
              /\ task' = [task EXCEPT ![r] = "update_status"]
         ELSE /\ task' = [task EXCEPT ![r] = "run_dagflow"]
              /\ UNCHANGED rows
    /\ UNCHANGED <<execVars, apiVars, libVars, orch_max_workers, run_repo, runs,
                   orch_results, fut, poolq, run_results, caller, seen>>

\* UPDATE runs SET status = ? WHERE id = ?
SetStatus(row, status) ==
    IF row.status = "none" THEN row ELSE [row EXCEPT !.status = status]

\* UPDATE runs SET result = ?, status = ? WHERE id = ?
SetResult(row, payload, status) ==
    IF row.status = "none" THEN row
    ELSE [status |-> status, result |-> JsonOfPayload(payload)]

\* _run: self._run_repo.update_status(run_id, "running")
UpdateStatus(r) ==
    /\ task[r] = "update_status"
    /\ \E ok \in BOOLEAN :
         rows' = IF ok THEN [rows EXCEPT ![r] = SetStatus(@, "running")] ELSE rows
    /\ task' = [task EXCEPT ![r] = "run_dagflow"]
    /\ UNCHANGED <<execVars, apiVars, libVars, orch_max_workers, run_repo, runs,
                   orch_results, fut, poolq, run_results, caller, seen>>

\* every run reads the results of every run
RunResults_Shared(r) ==
    LET other == CHOOSE q \in RunIds : q # r
    IN [n \in DOMAIN run_results[r] \cup DOMAIN run_results[other] |->
          IF n \in DOMAIN run_results[other] THEN run_results[other][n]
          ELSE run_results[r][n]]

\* `results`, the dict local to the run_dagflow call of run r
RunResults(r) == run_results[r]

\* _run: executor.run_dagflow(flow, registry), one step of the flow at a
\* time: the step's args are resolved against the call's results and its
\* action returns or fails for good
ExecStep(r) ==
    /\ task[r] = "run_dagflow"
    /\ LET nid == RunSteps[Cardinality(DOMAIN run_results[r]) + 1]
           kw == ResolveArgs(RunArgs(r, nid), RunResults(r))
       IN \E fails \in BOOLEAN :
            IF fails
            THEN /\ run_results' = [run_results EXCEPT ![r] = EmptyDict]
                 /\ task' = [task EXCEPT ![r] = IF RepoConfigured THEN "fail_run"
                                                ELSE "raise"]
            ELSE /\ run_results' =
                      [run_results EXCEPT ![r] =
                          [n \in DOMAIN @ \cup {nid} |->
                              IF n = nid THEN ActionValue(nid, kw) ELSE @[n]]]
                 /\ task' = [task EXCEPT ![r] =
                                 IF nid = RunSteps[Len(RunSteps)] THEN "store"
                                 ELSE "run_dagflow"]
    /\ UNCHANGED <<execVars, apiVars, libVars, orch_max_workers, run_repo, rows, runs,
                   orch_results, fut, poolq, caller, seen>>

\* _run: with self._lock: self._results[run_id] = res
StoreResult(r) ==
    /\ task[r] = "store"
    /\ orch_results' = [q \in DOMAIN orch_results \cup {r} |->
                           IF q = r THEN run_results[r] ELSE orch_results[q]]
    /\ task' = [task EXCEPT ![r] = IF RepoConfigured THEN "save_result"
                                   ELSE "return"]
    /\ UNCHANGED <<execVars, apiVars, libVars, orch_max_workers, run_repo, rows, runs,
                   fut, poolq, run_results, caller, seen>>

\* _run: self._run_repo.save_result(run_id, res), whose failure is passed over
SaveResult(r) ==
    /\ task[r] = "save_result"
    /\ \E ok \in BOOLEAN :
         rows' = IF ok
                 THEN [rows EXCEPT ![r] =
                          SetResult(@, MapPayload(orch_results[r]), "done")]
                 ELSE rows
    /\ task' = [task EXCEPT ![r] = "return"]
    /\ UNCHANGED <<execVars, apiVars, libVars, orch_max_workers, run_repo, runs,
                   orch_results, fut, poolq, run_results, caller, seen>>

\* _run: self._run_repo.fail_run(run_id, str(e)), whose failure is passed over
FailRun(r) ==
    /\ task[r] = "fail_run"
    /\ \E ok \in BOOLEAN :
         rows' = IF ok
                 THEN [rows EXCEPT ![r] = SetResult(@, ErrorPayload, "failed")]
                 ELSE rows
    /\ task' = [task EXCEPT ![r] = "raise"]
    /\ UNCHANGED <<execVars, apiVars, libVars, orch_max_workers, run_repo, runs,
                   orch_results, fut, poolq, run_results, caller, seen>>

\* _run returns res or re-raises: the future is finished and its thread free
TaskEnd(r) ==
    /\ task[r] \in {"return", "raise"}
    /\ fut' = [fut EXCEPT ![r] = "finished"]
    /\ task' = [task EXCEPT ![r] = IF @ = "return" THEN "returned" ELSE "raised"]
    /\ UNCHANGED <<execVars, apiVars, libVars, orch_max_workers, run_repo, rows, runs,
                   orch_results, poolq, run_results, caller, seen>>

\* RunRepository.get_status: the row's status, or None
RepoStatus(rid) ==
    IF rid \in RunIds /\ rows[rid].status # "none" THEN rows[rid].status
    ELSE "unknown"

\* RunRepository.get_result: the row's result read back, or None
RepoResult(rid) ==
    IF rid \in RunIds /\ rows[rid].status # "none"
    THEN PayloadOfJson(rows[rid].result)
    ELSE NonePayload

\* get_status up to fut.running(): an id not in _runs is answered from the
\* repository or as unknown, a running future as running
GetStatus ==
    /\ pc = "orch"
    /\ caller.pc = "idle"
    /\ seen.rid \in runs \cup {0}
    /\ IF seen.rid \notin runs
       THEN /\ seen' = [seen EXCEPT !.status =
                           IF RepoConfigured THEN RepoStatus(seen.rid)
                           ELSE "unknown"]
            /\ UNCHANGED caller
       ELSE IF FutRunning(fut[seen.rid])
       THEN /\ seen' = [seen EXCEPT !.status = "running"]
            /\ UNCHANGED caller
       ELSE /\ caller' = [caller EXCEPT !.pc = "status_done"]
            /\ UNCHANGED seen
    /\ UNCHANGED <<execVars, apiVars, libVars, orch_max_workers, run_repo, rows, runs,
                   orch_results, fut, poolq, task, run_results>>

\* get_status from fut.done() on
GetStatusDone ==
    /\ caller.pc = "status_done"
    /\ seen' = [seen EXCEPT !.status =
                   IF FutDone(fut[seen.rid]) THEN "done" ELSE "pending"]
    /\ caller' = [caller EXCEPT !.pc = "idle"]
    /\ UNCHANGED <<execVars, apiVars, libVars, orch_max_workers, run_repo, rows, runs,
                   orch_results, fut, poolq, task, run_results>>

\* get_result under the lock: self._results.get(run_id), returned unless None
GetResult ==
    /\ pc = "orch"
    /\ caller.pc = "idle"
    /\ seen.rid \in runs \cup {0}
    /\ IF seen.rid \in DOMAIN orch_results
       THEN /\ seen' = [seen EXCEPT !.result = MapPayload(orch_results[seen.rid]),
                                    !.src = "memory"]
            /\ UNCHANGED caller
       ELSE IF RepoConfigured
       THEN /\ caller' = [caller EXCEPT !.pc = "result_repo"]
            /\ UNCHANGED seen
       ELSE /\ seen' = [seen EXCEPT !.result = NonePayload, !.src = "memory"]
            /\ UNCHANGED caller
    /\ UNCHANGED <<execVars, apiVars, libVars, orch_max_workers, run_repo, rows, runs,
                   orch_results, fut, poolq, task, run_results>>

\* get_result after the lock: return self._run_repo.get_result(run_id)
GetResultRepo ==
    /\ caller.pc = "result_repo"
    /\ seen' = [seen EXCEPT !.result = RepoResult(seen.rid), !.src = "repo"]
    /\ caller' = [caller EXCEPT !.pc = "idle"]
    /\ UNCHANGED <<execVars, apiVars, libVars, orch_max_workers, run_repo, rows, runs,
                   orch_results, fut, poolq, task, run_results>>

\* ------------------------------------------------------------------- Next
\* ------------------------------------------------------------ StateMachine
\* sm.add_state(State(id, action, on)): FlowError for an id the machine has
AddState ==
    /\ pc = "sm_build"
    /\ \E id \in StateIds, action \in StateActions, on \in Transitions :
         IF HasState(states, id)
         THEN /\ error' = FlowError("state_exists", id, {})
              /\ UNCHANGED <<states, start_state>>
         ELSE /\ states' = Append(states, State(id, action, on))
              /\ start_state' = IF start_state = NoState THEN id ELSE start_state
              /\ error' = NoError
    /\ UNCHANGED <<pc, events, ev_next, current, sm_results, invoked, runVars,
                   apiVars, orchVars, timedVars,
                   schedVars, queueVars>>

\* StateMachine(id, start_state=...) or `sm.start_state = ...`
SetStartState ==
    /\ pc = "sm_build"
    /\ \E id \in StateIds \cup {UnknownState} : start_state' = id
    /\ UNCHANGED <<pc, error, states, events, ev_next, current, sm_results, invoked,
                   runVars, apiVars, orchVars, timedVars,
                   schedVars, queueVars>>

\* StateMachine.run up to its loop
RunBegin ==
    /\ pc = "sm_build"
    /\ \E evs \in EventSeqs : events' = evs
    /\ ev_next' = 1
    /\ invoked' = <<>>
    /\ sm_results' = EmptyDict
    /\ IF start_state = NoState
       THEN /\ Raise(FlowError("no_start_state", 0, {}), "raised")
            /\ UNCHANGED current
       ELSE /\ current' = start_state
            /\ pc' = "sm_run"
            /\ error' = NoError
    /\ UNCHANGED <<states, start_state, runVars, apiVars, orchVars, timedVars,
                   schedVars, queueVars>>

\* one iteration of `for ev in events`
RunEvent ==
    /\ pc = "sm_run"
    /\ ev_next <= Len(events)
    /\ LET ev == events[ev_next]
           found == states_map_get(states, current)
       IN IF found = {}
          THEN /\ Raise(FlowError("unknown_state", current, {}), "raised")
               /\ UNCHANGED <<ev_next, current, sm_results, invoked>>
          ELSE LET st == CHOOSE x \in found : TRUE
               IN \E registered \in BOOLEAN, fails \in BOOLEAN :
                    IF st.action # "none" /\ ~registered
                    THEN /\ Raise(FlowError("action_not_found", current, {}), "raised")
                         /\ UNCHANGED <<ev_next, current, sm_results, invoked>>
                    ELSE IF st.action # "none" /\ fails
                    THEN /\ invoked' = Append(invoked, StateActionValue(ev, current))
                         /\ Raise([cls |-> "Exception", kind |-> "action_raised",
                                   step |-> current, tout |-> {}], "raised")
                         /\ UNCHANGED <<ev_next, current, sm_results>>
                    ELSE /\ IF st.action # "none"
                            THEN /\ invoked' = Append(invoked, StateActionValue(ev, current))
                                 /\ sm_results' =
                                       [k \in DOMAIN sm_results \cup {current} |->
                                          IF k = current THEN StateActionValue(ev, current)
                                          ELSE sm_results[k]]
                            ELSE UNCHANGED <<invoked, sm_results>>
                         /\ IF ev \in DOMAIN st.on
                            THEN /\ current' = NextState(st.on, ev, current)
                                 /\ ev_next' = ev_next + 1
                                 /\ UNCHANGED pc
                            ELSE /\ pc' = "returned"
                                 /\ UNCHANGED <<current, ev_next>>
                         /\ UNCHANGED error
    /\ UNCHANGED <<states, start_state, events, runVars, apiVars, orchVars, timedVars,
                   schedVars, queueVars>>

\* the events are exhausted: `return results`
RunReturn ==
    /\ pc = "sm_run"
    /\ ev_next > Len(events)
    /\ pc' = "returned"
    /\ UNCHANGED <<error, smVars, runVars, apiVars, orchVars, timedVars,
                   schedVars, queueVars>>

\* ------------------------------------------- one step against the clock
\* an attempt restarts the step's clock
KeepStartTs_Reset(t0, now0) == now0

\* _run_with_retries leaves start_ts_by_nid[nid] as submit_step set it
KeepStartTs(t0, now0) == t0

\* the policies a timed step may carry, its timeouts ({} is None) and the
\* time one invocation of its action takes
TimedPolicies ==
    {RetryPolicyOf(k, b, m) :
        k \in 1..(MaxAttempts + 1), b \in 0..MaxBackoff, m \in 0..MaxMultiplier}
Timeouts == {{}} \cup {{t} : t \in 1..MaxTimeout}
Durations == 1..MaxDuration
\* the time from the return of `wait` to the scan's `now = time.perf_counter()`
ScanDelays == 0..1

\* submit_step from `start_ts_by_nid[nid] = time.perf_counter()` on, and the
\* first statements of _run_with_retries
TimedSubmit ==
    /\ pc = "t_submit"
    /\ start_ts' = clock
    /\ n_attempts' = 0
    /\ backoff' = retry_policy.backoff
    /\ outcome' = Pending
    /\ pc' = "t_wait"
    /\ UNCHANGED <<error, clock, timeout, retry_policy, sleeps, durations, runVars,
                   apiVars, orchVars, smVars,
                   schedVars, queueVars>>

\* one iteration of `while attempts < max_attempts` up to the return, the
\* raise or the sleep
Attempt ==
    /\ outcome = Pending
    /\ LoopContinues(n_attempts, retry_policy.max_attempts)
    /\ n_attempts' = n_attempts + 1
    /\ \E d \in Durations, fails \in BOOLEAN :
         /\ clock' = clock + d
         /\ durations' = Append(durations, d)
         /\ outcome' = IF ~fails THEN Returned
                       ELSE IF Exhausted(n_attempts', retry_policy.max_attempts)
                       THEN Raised(n_attempts')
                       ELSE Sleeping
    /\ start_ts' = KeepStartTs(start_ts, clock)
    /\ UNCHANGED <<pc, error, timeout, retry_policy, backoff, sleeps, runVars,
                   apiVars, orchVars, smVars,
                   schedVars, queueVars>>

\* `time.sleep(backoff)` and `backoff = backoff * multiplier`
Sleep ==
    /\ outcome = Sleeping
    /\ sleeps' = Append(sleeps, backoff)
    /\ clock' = clock + backoff
    /\ backoff' = NextBackoff(backoff, retry_policy.multiplier)
    /\ outcome' = Pending
    /\ UNCHANGED <<pc, error, start_ts, timeout, retry_policy, n_attempts, durations,
                   runVars, apiVars, orchVars, smVars,
                   schedVars, queueVars>>

\* `wait` returns for the step's future, the timeout scan, fut.result()
\* and the end of the run
TimedWait ==
    /\ pc = "t_wait"
    /\ outcome.state \in {"ok", "exc"}
    /\ \E delay \in ScanDelays : clock' = clock + delay
    /\ IF timeout # {} /\ \E t \in timeout : clock' - start_ts > t
       THEN Raise(FlowError("timeout", 1, timeout), "raised")
       ELSE IF outcome.state = "exc"
       THEN Raise(FlowError("step_failed", 1, {}), "raised")
       ELSE pc' = "returned" /\ UNCHANGED error
    /\ UNCHANGED <<start_ts, timeout, retry_policy, n_attempts, backoff, sleeps,
                   durations, outcome, runVars, apiVars, orchVars, smVars,
                   schedVars, queueVars>>

\* ---------------------------------------------------------------- Scheduler
\* threading.Timer.start() on a Timer: one that was cancelled never fires
Started(st) == IF st = "cancelled" THEN "cancelled" ELSE "started"

\* threading.Timer.cancel(): a Timer whose function is running or has run
\* is left as it is
Cancelled(st) == IF st \in {"created", "started"} THEN "cancelled" ELSE st

\* schedule_periodic: t0 is made, registered and started
SchedulePeriodic(s) ==
    /\ pc = "sched"
    /\ timer_state[s][1] = "none"
    /\ timer_state' = [timer_state EXCEPT ![s][1] = Started("created")]
    /\ timers' = [timers EXCEPT ![s] = 1]
    /\ UNCHANGED <<pc, error, tick_pc, tick_timer, cancel_pc, cancel_t, submits,
                   runVars, apiVars, orchVars, smVars, timedVars, queueVars>>

\* the interval of a started Timer is over: its thread calls _tick
TimerFires(s) ==
    /\ pc = "sched"
    /\ submits[s] < MaxTicks
    /\ \E t \in TimerIds :
         /\ timer_state[s][t] = "started"
         /\ timer_state' = [timer_state EXCEPT ![s][t] = "fired"]
    /\ tick_pc' = [tick_pc EXCEPT ![s] = "submit"]
    /\ UNCHANGED <<pc, error, timers, tick_timer, cancel_pc, cancel_t, submits,
                   runVars, apiVars, orchVars, smVars, timedVars, queueVars>>

\* `self.orch.submit_flow(flow, executor, registry)`; the finally clause
\* runs whether or not it raised
TickSubmit(s) ==
    /\ tick_pc[s] = "submit"
    /\ submits' = [submits EXCEPT ![s] = @ + 1]
    /\ tick_pc' = [tick_pc EXCEPT ![s] = "reschedule"]
    /\ UNCHANGED <<pc, error, timers, timer_state, tick_timer, cancel_pc, cancel_t,
                   runVars, apiVars, orchVars, smVars, timedVars, queueVars>>

\* `t = threading.Timer(interval_seconds, _tick)` and
\* `self._timers[schedule_id] = t`
TickRegister(s) ==
    /\ tick_pc[s] = "reschedule"
    /\ LET t == CHOOSE u \in TimerIds :
                    /\ timer_state[s][u] = "none"
                    /\ \A v \in TimerIds : v < u => timer_state[s][v] # "none"
       IN /\ timer_state' = [timer_state EXCEPT ![s][t] = "created"]
          /\ timers' = [timers EXCEPT ![s] = t]
          /\ tick_timer' = [tick_timer EXCEPT ![s] = t]
    /\ tick_pc' = [tick_pc EXCEPT ![s] = "start"]
    /\ UNCHANGED <<pc, error, cancel_pc, cancel_t, submits,
                   runVars, apiVars, orchVars, smVars, timedVars, queueVars>>

\* `t.start()`, the last statement of _tick
TickStart(s) ==
    /\ tick_pc[s] = "start"
    /\ timer_state' = [timer_state EXCEPT ![s][tick_timer[s]] = Started(@)]
    /\ tick_pc' = [tick_pc EXCEPT ![s] = "idle"]
    /\ UNCHANGED <<pc, error, timers, tick_timer, cancel_pc, cancel_t, submits,
                   runVars, apiVars, orchVars, smVars, timedVars, queueVars>>

\* cancel(schedule_id): `t = self._timers.pop(schedule_id, None)`
CancelPop(s) ==
    /\ cancel_pc[s] = "idle"
    /\ timer_state[s][1] # "none"
    /\ cancel_t' = [cancel_t EXCEPT ![s] = timers[s]]
    /\ timers' = [timers EXCEPT ![s] = NoTimer]
    /\ cancel_pc' = [cancel_pc EXCEPT ![s] = "popped"]
    /\ UNCHANGED <<pc, error, timer_state, tick_pc, tick_timer, submits,
                   runVars, apiVars, orchVars, smVars, timedVars, queueVars>>

\* `if t: t.cancel()` and the return of cancel
CancelTimer(s) ==
    /\ cancel_pc[s] = "popped"
    /\ IF cancel_t[s] # NoTimer
       THEN timer_state' = [timer_state EXCEPT ![s][cancel_t[s]] = Cancelled(@)]
       ELSE UNCHANGED timer_state
    /\ cancel_pc' = [cancel_pc EXCEPT ![s] = "returned"]
    /\ UNCHANGED <<pc, error, timers, tick_pc, tick_timer, cancel_t, submits,
                   runVars, apiVars, orchVars, smVars, timedVars, queueVars>>

\* -------------------------------------------------------------------- Queue
\* full(): `self._maxsize > 0 and len(self._q) >= self._maxsize`
Full == maxsize > 0 /\ Len(deque) >= maxsize

\* the test of the while loop of put (`self.full()`) and of get
\* (`not self._q`) for the caller
MustWait(c) == IF call_op[c] = "put" THEN Full ELSE deque = <<>>

\* threading.Condition.notify(): the thread that has waited longest is
\* woken; with no thread waiting nothing happens
Notify ==
    IF cond_waiters = <<>>
    THEN [pcs |-> call_pc, waiters |-> cond_waiters]
    ELSE [pcs |-> [call_pc EXCEPT ![Head(cond_waiters)] = "notified"],
          waiters |-> Tail(cond_waiters)]

\* `with self._cond:` is entered
Enter(c) ==
    /\ pc = "queue"
    /\ call_pc[c] = "call"
    /\ cond_owner = NoCaller
    /\ cond_owner' = c
    /\ call_pc' = [call_pc EXCEPT ![c] = "locked"]
    /\ UNCHANGED <<pc, error, maxsize, deque, cond_waiters, call_op, got,
                   runVars, apiVars, orchVars, smVars, timedVars, schedVars>>

\* `self._cond.wait(timeout=None)`: the caller joins the waiting threads
\* and gives up the lock
CondWait(c) ==
    /\ call_pc[c] = "locked"
    /\ MustWait(c)
    /\ cond_waiters' = Append(cond_waiters, c)
    /\ cond_owner' = NoCaller
    /\ call_pc' = [call_pc EXCEPT ![c] = "waiting"]
    /\ UNCHANGED <<pc, error, maxsize, deque, call_op, got,
                   runVars, apiVars, orchVars, smVars, timedVars, schedVars>>

\* wait returns in a notified caller once it has the lock again
Wake(c) ==
    /\ call_pc[c] = "notified"
    /\ cond_owner = NoCaller
    /\ cond_owner' = c
    /\ call_pc' = [call_pc EXCEPT ![c] = "locked"]
    /\ UNCHANGED <<pc, error, maxsize, deque, cond_waiters, call_op, got,
                   runVars, apiVars, orchVars, smVars, timedVars, schedVars>>

\* put past its loop: `self._q.append(item)`, `self._cond.notify()` and
\* the end of the with block
Put(c) ==
    /\ call_pc[c] = "locked"
    /\ call_op[c] = "put"
    /\ ~MustWait(c)
    /\ deque' = Append(deque, c)
    /\ cond_waiters' = Notify.waiters
    /\ call_pc' = [Notify.pcs EXCEPT ![c] = "done"]
    /\ cond_owner' = NoCaller
    /\ UNCHANGED <<pc, error, maxsize, call_op, got,
                   runVars, apiVars, orchVars, smVars, timedVars, schedVars>>

\* get past its loop: `item = self._q.popleft()`, `self._cond.notify()`
\* and `return item`
Get(c) ==
    /\ call_pc[c] = "locked"
    /\ call_op[c] = "get"
    /\ ~MustWait(c)
    /\ got' = [got EXCEPT ![c] = Head(deque)]
    /\ deque' = Tail(deque)
    /\ cond_waiters' = Notify.waiters
    /\ call_pc' = [Notify.pcs EXCEPT ![c] = "done"]
    /\ cond_owner' = NoCaller
    /\ UNCHANGED <<pc, error, maxsize, call_op,
                   runVars, apiVars, orchVars, smVars, timedVars, schedVars>>

Next ==
    \/ BuildGraph
    \/ SubmitInitial
    \/ SubmitInitialEnd
    \/ WaitAny
    \/ \E n \in Nodes : ProcessDone(n)
    \/ ProcessEnd
    \/ Release
    \/ ReleaseEnd
    \/ LoopExit
    \/ Unwind
    \/ \E n \in Nodes : StartWork(n)
    \/ \E n \in Nodes : FinishWork(n)
    \/ \E n \in Nodes : Tick(n)
    \/ DagRunToposort
    \/ DagRunStep
    \/ DagRunReturn
    \/ HooksRun

Spec == Init /\ [][Next]_vars

\* ------------------------------------------ the flow API on its own
\* DAGFlow(id, version), or dag(id, version).build()
ApiInit ==
    /\ NoRun
    /\ pc = "api"
    /\ \E v \in Versions : dflow = DAGFlow("f", v)
    /\ api = NoCall
    /\ loaded = NoFlow
    /\ NoOrchestrator
    /\ NoLib

ApiNext ==
    \/ AddStep
    \/ AddEdge
    \/ BuilderStep
    \/ BuilderEdge
    \/ FromDict
    \/ Loads

ApiSpec == ApiInit /\ [][ApiNext]_vars

\* ------------------------------------------ the Orchestrator on its own
\* Orchestrator(max_workers, run_repo): one pool thread or one for every
\* run, with a repository or without; the caller asks about one run id
OrchInit ==
    /\ NoRun
    /\ NoFlowApi
    /\ NoLib
    /\ pc = "orch"
    /\ orch_max_workers \in {1, MaxRuns}
    /\ run_repo \in {"none", "sqlite"}
    /\ rows = [r \in RunIds |-> NoRow]
    /\ runs = {}
    /\ orch_results = EmptyDict
    /\ fut = [r \in RunIds |-> "none"]
    /\ poolq = <<>>
    /\ task = [r \in RunIds |-> "none"]
    /\ run_results = [r \in RunIds |-> EmptyDict]
    /\ caller = Idle
    /\ \E rid \in PollIds : seen = NotSeen(rid)

\* one step of the background task of run r
TaskStep(r) ==
    \/ TaskStart(r)
    \/ CreateRun(r)
    \/ UpdateStatus(r)
    \/ ExecStep(r)
    \/ StoreResult(r)
    \/ SaveResult(r)
    \/ FailRun(r)
    \/ TaskEnd(r)

OrchNext ==
    \/ SubmitFlow
    \/ Register
    \/ \E r \in RunIds : TaskStep(r)
    \/ GetStatus
    \/ GetStatusDone
    \/ GetResult
    \/ GetResultRepo

OrchSpec == OrchInit /\ [][OrchNext]_vars

\* ------------------------------------------ the four ways to run a flow
Executors == {"dagrun", "local", "remote", "process"}

\* DAGFlow.run, or run_dagflow of a LocalExecutor, a DummyRemoteExecutor or
\* a ProcessExecutor, is called with a flow
EquivInit ==
    /\ InitFlowOf(Executors)
    /\ InitRun
    /\ NoFlowApi
    /\ NoOrchestrator
    /\ NoLib

EquivNext ==
    \/ BuildGraph
    \/ SubmitInitial
    \/ SubmitInitialEnd
    \/ WaitAny
    \/ \E n \in Nodes : ProcessDone(n)
    \/ ProcessEnd
    \/ Release
    \/ ReleaseEnd
    \/ LoopExit
    \/ Unwind
    \/ \E n \in Nodes : StartWork(n)
    \/ \E n \in Nodes : FinishWork(n)
    \/ \E n \in Nodes : Tick(n)
    \/ DagRunToposort
    \/ DagRunStep
    \/ DagRunReturn

EquivSpec == EquivInit /\ [][EquivNext]_vars

\* ------------------------------------------ one step against the clock
\* LocalExecutor.run_dagflow is about to dispatch the one step of a flow,
\* which carries a retry policy and may carry a timeout
TimedInit ==
    /\ NoRun
    /\ NoFlowApi
    /\ NoOrchestrator
    /\ NoStateMachine
    /\ NoScheduler
    /\ NoQueue
    /\ pc = "t_submit"
    /\ clock \in ScanDelays
    /\ start_ts = 0
    /\ timeout \in Timeouts
    /\ retry_policy \in TimedPolicies
    /\ n_attempts = 0
    /\ backoff = 0
    /\ sleeps = <<>>
    /\ durations = <<>>
    /\ outcome = NoOutcome

TimedNext ==
    \/ TimedSubmit
    \/ Attempt
    \/ Sleep
    \/ TimedWait

TimedSpec == TimedInit /\ [][TimedNext]_vars

\* ------------------------------------------------ a Scheduler on its own
\* Scheduler(orchestrator)
SchedInit ==
    /\ NoRun
    /\ NoFlowApi
    /\ NoOrchestrator
    /\ NoLib
    /\ pc = "sched"

SchedNext ==
    \E s \in Schedules :
        \/ SchedulePeriodic(s)
        \/ TimerFires(s)
        \/ TickSubmit(s)
        \/ TickRegister(s)
        \/ TickStart(s)
        \/ CancelPop(s)
        \/ CancelTimer(s)

SchedSpec == SchedInit /\ [][SchedNext]_vars

\* ----------------------------------------------------- a Queue on its own
\* Queue(maxsize) with maxsize > 0, and threads of which each is about to
\* call put(item) or get() with block=True and no timeout
QueueInit ==
    /\ NoRun
    /\ NoFlowApi
    /\ NoOrchestrator
    /\ NoStateMachine
    /\ NoTimedStep
    /\ NoScheduler
    /\ pc = "queue"
    /\ maxsize \in 1..MaxQueueSize
    /\ deque = <<>>
    /\ cond_owner = NoCaller
    /\ cond_waiters = <<>>
    /\ call_op \in [Callers -> {"put", "get"}]
    /\ call_pc = [c \in Callers |-> "call"]
    /\ got = [c \in Callers |-> 0]

QueueStep(c) ==
    \/ Enter(c)
    \/ CondWait(c)
    \/ Wake(c)
    \/ Put(c)
    \/ Get(c)

QueueNext == \E c \in Callers : QueueStep(c)

QueueSpec == QueueInit /\ [][QueueNext]_vars

\* every thread runs: one that can go on does
QueueFairSpec ==
    /\ QueueSpec
    /\ \A c \in Callers : WF_vars(QueueStep(c))

\* ------------------------------------------ a StateMachine on its own
\* StateMachine(id)
SmInit ==
    /\ NoRun
    /\ NoFlowApi
    /\ NoOrchestrator
    /\ NoLib
    /\ pc = "sm_build"

SmNext ==
    \/ AddState
    \/ SetStartState
    \/ RunBegin
    \/ RunEvent
    \/ RunReturn

SmSpec == SmInit /\ [][SmNext]_vars

\* the pool's threads run, every repository call and every executor call
\* comes back
OrchFairSpec ==
    /\ OrchSpec
    /\ \A r \in RunIds : WF_vars(TaskStep(r))
    /\ WF_vars(Register)

\* ----------------------------------------------------------------- claims
Terminal == {"returned", "raised"}

EdgeSet == {<<edges[i][1], edges[i][2]>> : i \in DOMAIN edges}

RECURSIVE ReachFrom(_)
ReachFrom(S) ==
    LET next == S \cup {e[2] : e \in {d \in EdgeSet : d[1] \in S}}
    IN IF next = S THEN S ELSE ReachFrom(next)

\* the steps reachable from a by one edge or more
Descendants(a) == ReachFrom({e[2] : e \in {d \in EdgeSet : d[1] = a}})

OnCycle(n) == n \in Descendants(n)
HasCycle == \E c \in Nodes : OnCycle(c)

\* n lies on a cycle or behind one
BehindCycle(n) == \E c \in Nodes : OnCycle(c) /\ (n = c \/ n \in Descendants(c))

\* unique step ids, edges between declared steps, no cycle
ValidFlow == ~HasUnknownEndpoint /\ ~HasCycle

Submitted(n) == wstate[n] # "none"

\* the steps with an edge into n
Predecessors(n) == {e[1] : e \in {d \in EdgeSet : d[2] = n}}

\* what guard kind returns from the hook for value v
HookOf(hook, kind, v) == IF hook = "pre" THEN PreStep(kind, v) ELSE PostStep(kind, v)

\* v taken through the hooks of the first k guards of gs, in order
RECURSIVE FoldHooks(_, _, _, _)
FoldHooks(hook, gs, k, v) ==
    IF k = 0 THEN v ELSE HookOf(hook, gs[k], FoldHooks(hook, gs, k - 1, v))

\* the value run_post makes of a raw result when no guard rejects it
Guarded(raw) == FoldHooks("post", guards, Len(guards), raw)

\* step m carries a `$result.<n>` arg
RefersTo(m, n) == "x" \in DOMAIN args_of[m] /\ args_of[m]["x"] = RefV(n)

\* C1: in LocalExecutor.run_dagflow, for every edge (a, b), b is not
\* submitted to the pool and its action is not invoked before the result
\* of a is in the results map, whatever the interleaving and the pool size.
C1_NoStartBeforePredecessor ==
    Local =>
      \A i \in DOMAIN edges :
        LET a == edges[i][1]
            b == edges[i][2]
        IN (a \in Nodes /\ b \in Nodes /\ (Submitted(b) \/ calls[b] > 0))
              => a \in DOMAIN results

C1_Witness ==
    /\ Local
    /\ max_workers > 1
    /\ \E i \in DOMAIN edges :
         /\ edges[i][1] # edges[i][2]
         /\ edges[i][2] \in Nodes
         /\ calls[edges[i][2]] > 0

\* C2 as stated: a run of a valid flow whose actions are all registered
\* and all return normally (and whose guards reject nothing) returns.
C2_Original ==
    (/\ Local
     /\ ValidFlow
     /\ pc = "raised"
     /\ \A n \in Nodes : wstate[n] # "exc")
      => error.kind \in {"action_not_found", "guard_pre", "guard_post"}

\* C2 amended: a run of a valid flow whose actions all come back ends; it
\* raises only for a missing action, a failed action, a guard violation or
\* a step found past its declared timeout, and otherwise returns a map whose
\* key set is the set of step ids (the empty map for the empty flow).
C2_ValidFlowReturnsAll ==
    /\ [](  (Local /\ ValidFlow) =>
              /\ pc \in Terminal \/ ENABLED Next
              /\ pc = "returned" => DOMAIN results = Nodes
              /\ pc = "raised" =>
                    error.kind \in {"action_not_found", "step_failed",
                                    "guard_pre", "guard_post", "timeout"})
    /\ (Local /\ ValidFlow) ~> (pc \in Terminal)

C2_Witness ==
    /\ Local
    /\ ValidFlow
    /\ pc = "returned"
    /\ Cardinality(Nodes) > 2
    /\ edges # <<>>
    /\ DOMAIN results = Nodes

\* C3: when run_dagflow returns normally the map holds a result for every
\* declared step, and no step failed, ran past its timeout or was left
\* undispatched: any of these makes the call raise instead.
C3_ReturnMeansComplete ==
    (Local /\ pc = "returned") =>
      /\ DOMAIN results = Nodes
      /\ error = NoError
      /\ \A n \in Nodes : wstate[n] = "ok" /\ ~late[n]

C3_Witness ==
    /\ Local
    /\ pc = "returned"
    /\ Cardinality(Nodes) > 1
    /\ \E n \in Nodes : step_timeout_by_nid[n] # {}

C5_UnknownEndpointIsFlowError ==
    (HasUnknownEndpoint /\ pc \in Terminal) =>
      /\ pc = "raised"
      /\ error.cls = "FlowError"
      /\ \A n \in Nodes : calls[n] = 0

\* the run stopped on the KeyError of the graph build, no action invoked
C5_Witness ==
    /\ HasUnknownEndpoint
    /\ Nodes # {}
    /\ pc = "raised"
    /\ error = KeyError
    /\ \A n \in Nodes : calls[n] = 0

C7_RetryExhaustion ==
    Local =>
      \A n \in Nodes :
        (Finished(n) /\ behaviour[n].always)
          => /\ wstate[n] = "exc"
             /\ calls[n] = step_retry_by_nid[n].max_attempts
             /\ n \notin DOMAIN results
             /\ pc # "returned"
             /\ n \notin Range(futures) => error = FlowError("step_failed", n, {})

C7_Witness ==
    /\ Local
    /\ pc = "raised"
    /\ \E n \in Nodes :
         /\ args_of[n] = MkArgs(AbsentV, AbsentV, RetryDictV(MaxAttempts))
         /\ behaviour[n].always
         /\ calls[n] = MaxAttempts
         /\ MaxAttempts > 1
         /\ error = FlowError("step_failed", n, {})

\* the step's args hold no usable retry policy
NoUsablePolicy(args) ==
    \/ "__retry__" \notin DOMAIN args
    \/ args["__retry__"].t # "dict"
    \/ args["__retry__"].s = ""
    \/ args["__retry__"].s = "max_attempts" /\ args["__retry__"].i < 1

\* the max_attempts the step's args ask for
EffectiveMaxAttempts(args) ==
    IF NoUsablePolicy(args) THEN 1
    ELSE IF args["__retry__"].s = "max_attempts" THEN args["__retry__"].i
    ELSE FromDictDefaultMaxAttempts

\* C8: a step without a usable __retry__ policy is invoked exactly once and
\* its first failure fails the run; no step is invoked more often than its
\* effective max_attempts, nor again after an invocation that succeeded.
C8_BoundedInvocations ==
    Local =>
      \A n \in Nodes :
        /\ calls[n] <= EffectiveMaxAttempts(args_of[n])
        /\ Finished(n) =>
              /\ calls[n] >= 1
              /\ ~behaviour[n].always => calls[n] <= behaviour[n].fails + 1
              /\ NoUsablePolicy(args_of[n]) =>
                    /\ calls[n] = 1
                    /\ wstate[n] = (IF InvocationFails(behaviour[n], 1)
                                      THEN "exc" ELSE "ok")
                    /\ (InvocationFails(behaviour[n], 1) /\ n \notin Range(futures))
                          => error = FlowError("step_failed", n, {})

C8_Witness ==
    /\ Local
    /\ pc = "raised"
    /\ \E n \in Nodes :
         /\ args_of[n] = MkArgs(AbsentV, AbsentV, RetryDictV(0))
         /\ calls[n] = 1
         /\ error = FlowError("step_failed", n, {})

\* the value submit_step passes for a step's arg
ResolvedValue(v, res) ==
    IF v.t = "ref" THEN (IF v.i \in DOMAIN res THEN res[v.i] ELSE NoneV) ELSE v

\* C9: whatever the args hold under __timeout__ and __retry__, the kwargs
\* the action is invoked with hold neither key, hold every other resolved
\* arg unchanged, and are the same on every attempt.
C9_ReservedKeysStripped ==
    [][Local =>
        \A n \in Nodes :
          /\ (~Submitted(n) /\ Submitted(n)') =>
                /\ DOMAIN kwargs'[n] = (DOMAIN args_of'[n]) \ ReservedKeys
                /\ \A k \in DOMAIN kwargs'[n] :
                     kwargs'[n][k] = ResolvedValue(args_of'[n][k], results)
          /\ Submitted(n) => kwargs'[n] = kwargs[n]]_vars

C9_Witness ==
    /\ Local
    /\ \E n \in Nodes :
         /\ args_of[n] = MkArgs(IntV(7), StrV("abc"), StrV("abc"))
         /\ kwargs[n] = MkArgs(IntV(7), AbsentV, AbsentV)
         /\ calls[n] > 0

\* C10: a step whose action is still running after its declared timeout
\* makes the run fail, whether or not the action ever returns.
C10_TimeoutFailsRun ==
    \A n \in 1..MaxSize :
      (n \in Nodes /\ Local /\ wstate[n] = "running" /\ TimedOut(n))
         ~> (pc = "raised")

\* the dispatch loop waits for a completion while the only step in flight is
\* past its timeout
C10_Witness ==
    /\ Local
    /\ pc = "loop"
    /\ \E n \in Nodes : wstate[n] = "running" /\ TimedOut(n)
    /\ \A n \in Nodes : ~Finished(n)

\* the dispatch loop, the pool threads and the clock keep going; an action
\* need not return
FairSpec ==
    /\ Init
    /\ [][Next]_vars
    /\ WF_vars(BuildGraph \/ SubmitInitial \/ SubmitInitialEnd \/ WaitAny
               \/ (\E n \in Nodes : ProcessDone(n)) \/ ProcessEnd \/ Release
               \/ ReleaseEnd \/ LoopExit \/ Unwind)
    /\ WF_vars(\E n \in Nodes : StartWork(n))
    /\ WF_vars(\E n \in Nodes : Tick(n))
    /\ WF_vars(DagRunToposort \/ DagRunStep \/ DagRunReturn)

\* as FairSpec, and every invocation of an action comes back
TerminatingSpec ==
    /\ FairSpec
    /\ WF_vars(\E n \in Nodes : FinishWork(n))

\* C11: once run_dagflow has an error to raise (a step failed for good, a
\* guard rejected, a timeout, a missing action), no step is submitted to
\* the pool any more, whatever else the batch of completions holds.
C11_NoSubmitAfterFailure ==
    [][(Local /\ error # NoError) =>
          /\ futures' = futures \/ Len(futures') < Len(futures)
          /\ \A n \in Nodes : Submitted(n)' => Submitted(n)]_vars

\* the run failed while a step of the same batch had finished and would
\* have released a successor
C11_Witness ==
    /\ Local
    /\ pc = "raised"
    /\ error.kind \in {"step_failed", "guard_post"}
    /\ \E n \in done :
         /\ wstate[n] = "ok"
         /\ n # error.step
         /\ \E i \in DOMAIN outgoing[n] :
              LET m == outgoing[n][i]
              IN ~Submitted(m) /\ Predecessors(m) = {n}

\* C12: when a step has failed for good, the raise of run_dagflow is not
\* held back by the other steps that are running or queued in the pool.
C12_RaiseDoesNotWait ==
    (Local /\ pc = "unwind") => ENABLED Unwind

\* the error is there and another step is still running or queued
C12_Witness ==
    /\ Local
    /\ pc = "unwind"
    /\ error.kind = "step_failed"
    /\ \E n \in Nodes : n # error.step /\ wstate[n] \in {"queued", "running"}

\* C13: when run_dagflow has returned or raised, no action it submitted is
\* running or queued.
C13_NoWorkOutlivesCall ==
    (Local /\ pc \in Terminal) =>
        /\ workq = <<>>
        /\ \A n \in Nodes : wstate[n] \notin {"queued", "running"}

\* the run raised for one step after another one, never taken by the
\* dispatch loop, had finished, and a third was cancelled or had finished
C13_Witness ==
    /\ Local
    /\ pc = "raised"
    /\ error.kind \in {"step_failed", "timeout"}
    /\ \E n \in Range(futures) : n # error.step /\ Finished(n) /\ n \notin done

\* C14: when a pre-step guard rejects step s, the action of s is not
\* invoked, s gets no result, no step that depends on s is dispatched, and
\* the run ends with the guard error that names s.
C14_PreGuardViolation ==
    (Local /\ error.kind = "guard_pre") =>
        LET s == error.step
        IN /\ s \in Nodes
           /\ pc \in {"unwind", "raised"}
           /\ error = FlowError("guard_pre", s, {})
           /\ ~Submitted(s)
           /\ calls[s] = 0
           /\ s \notin DOMAIN results
           /\ \A d \in Descendants(s) : ~Submitted(d) /\ calls[d] = 0

C14_Witness ==
    /\ Local
    /\ pc = "raised"
    /\ error.kind = "guard_pre"
    /\ Descendants(error.step) # {}
    /\ guards # <<>>

\* guard k of the call recorded in gr signals a violation: it raises, or
\* its pre_step returns something that is not a dict
Signals(k) ==
    \/ gr.deny[k]
    \/ gr.hook = "pre" /\ ~IsDict(FoldHooks(gr.hook, guards, k, gr.input))

\* the first guard that signals a violation, 0 if none does
FirstSignal ==
    LET S == {k \in 1..Len(guards) : Signals(k)}
    IN IF S = {} THEN 0 ELSE CHOOSE k \in S : \A j \in S : k <= j

\* C15: run_pre and run_post call the guards' hooks in registration order,
\* each guard getting what the one before it returned, and return what the
\* last one returned; no guard after the first one that signals a violation
\* is called, and the call raises.
C15_HooksFoldInOrder ==
    (mode = "hooks" /\ gr.status # "idle") =>
        LET last == IF FirstSignal = 0 THEN Len(guards) ELSE FirstSignal
        IN /\ Len(gr.log) = last
           /\ \A k \in 1..Len(gr.log) :
                /\ gr.log[k].g = k
                /\ gr.log[k].arg = FoldHooks(gr.hook, guards, k - 1, gr.input)
           /\ gr.status = (IF FirstSignal = 0 THEN "returned" ELSE "raised")
           /\ FirstSignal = 0 =>
                 gr.out = FoldHooks(gr.hook, guards, Len(guards), gr.input)
           /\ pc = (IF FirstSignal = 0 THEN "returned" ELSE "raised")

\* run_pre went through a registry of guards that rewrite the args in an
\* order that matters
C15_Witness ==
    /\ mode = "hooks"
    /\ gr.hook = "pre"
    /\ gr.status = "returned"
    /\ guards = <<"pre_bump", "pre_double", "check">>
    /\ gr.input = MkArgs(IntV(1), AbsentV, AbsentV)
    /\ gr.out = MkArgs(IntV(4), AbsentV, AbsentV)

\* C16: a result is recorded, and dependents are dispatched, only with the
\* value the post-step guards returned: the map and every `$result`
\* reference hold the guarded value, never the raw one; when a post-step
\* guard rejects a step it gets no result and no dependent is dispatched.
C16_PostGuardsBeforeRecord ==
    Local =>
      /\ \A n \in DOMAIN results :
            wstate[n] = "ok" /\ results[n] = Guarded(wres[n])
      /\ \A m \in Nodes : Submitted(m) =>
            /\ \A n \in Predecessors(m) :
                  /\ n \in DOMAIN results
                  /\ RefersTo(m, n) => kwargs[m]["x"] = Guarded(wres[n])
            /\ \A n \in Nodes : RefersTo(m, n) =>
                  \/ kwargs[m]["x"] = NoneV
                  \/ n \in DOMAIN results /\ kwargs[m]["x"] = Guarded(wres[n])
      /\ error.kind = "guard_post" =>
            /\ error.step \notin DOMAIN results
            /\ pc \in {"unwind", "raised"}
            /\ \A d \in Descendants(error.step) : ~Submitted(d)

\* a run returned in which a guard rewrote the result of a step and the
\* step that depends on it was called with the rewritten value
C16_Witness ==
    /\ Local
    /\ pc = "returned"
    /\ guards = <<"post_bump">>
    /\ \E n, m \in Nodes :
         /\ n \in Predecessors(m)
         /\ RefersTo(m, n)
         /\ results[n] # wres[n]
         /\ kwargs[m]["x"] = results[n]
         /\ wres[m] = IntV(results[n].i + m)

\* how often n occurs in q
Count(q, n) == Cardinality({i \in DOMAIN q : q[i] = n})

C18_MissingRefFailsFast ==
    Local =>
      \A n \in Nodes :
        (calls[n] > 0 /\ "x" \in DOMAIN args_of[n] /\ args_of[n]["x"].t = "ref")
           => kwargs[n]["x"] # NoneV

\* a run returned after a step was called with None for a reference to an
\* id that is no step
C18_Witness ==
    /\ Local
    /\ pc = "returned"
    /\ \E n \in Nodes :
         /\ RefersTo(n, 0)
         /\ kwargs[n]["x"] = NoneV
         /\ calls[n] = 1
         /\ n \in DOMAIN results

\* the value the flow alone fixes for a `$result.<u>` arg of step n: the
\* result of u when the edges put u before n, and None otherwise, as when n
\* is dispatched before u has completed
FixedRef(n, u) ==
    IF u \in Nodes /\ n \in Descendants(u) /\ u \in DOMAIN results
    THEN results[u] ELSE NoneV

\* C19: the map run_dagflow returns is fixed by the flow and the actions:
\* every value is the guarded return value of the step's action for args
\* that do not depend on which of two unordered steps completed first.
C19_ResultsIndependentOfInterleaving ==
    (Local /\ pc = "returned") =>
      \A n \in Nodes :
        /\ results[n] = Guarded(ActionValue(n, kwargs[n]))
        /\ \A u \in 0..Len(steps) :
              RefersTo(n, u) => kwargs[n]["x"] = FixedRef(n, u)

\* a run returned in which a step that refers to a step the edges do not
\* order it with was called with None
C19_Witness ==
    /\ Local
    /\ pc = "returned"
    /\ steps = <<1, 2, 3>>
    /\ edges = <<<<2, 3>>>>
    /\ RefersTo(3, 1)
    /\ kwargs[3]["x"] = NoneV
    /\ results[3] = IntV(3)

\* C20: whenever the dispatch loop waits, every step whose predecessors
\* all have results has been submitted, so two ready steps with no path
\* between them are both in the pool; with two workers or more a queued
\* step starts while another one is running; a step that succeeds two
\* others is dispatched with the results of both.
C20_IndependentStepsRunTogether ==
    Local =>
      /\ (pc = "loop" /\ ~HasUnknownEndpoint) =>
            \A n \in Nodes :
              (\A p \in Predecessors(n) : p \in DOMAIN results) => Submitted(n)
      /\ (max_workers >= 2 /\ workq # <<>> /\ Cardinality(Running) <= 1
             /\ pc \notin Terminal) => ENABLED StartWork(Head(workq))
      /\ \A c \in Nodes : Submitted(c) =>
            \A p \in Predecessors(c) :
              /\ p \in DOMAIN results
              /\ RefersTo(c, p) => kwargs[c]["x"] = results[p]

\* two steps with a common successor are running at the same time while
\* the dispatch loop waits
C20_Witness ==
    /\ Local
    /\ pc = "loop"
    /\ max_workers >= 2
    /\ \E a, b, c \in Nodes :
         /\ a # b
         /\ Predecessors(c) = {a, b}
         /\ Predecessors(a) = {} /\ Predecessors(b) = {}
         /\ wstate[a] = "running"
         /\ wstate[b] = "running"

\* the ids of the steps a flow declares
DeclaredIds(flow) == {flow.steps[i].id : i \in 1..Len(flow.steps)}

\* C21: for every DAGFlow f, DAGFlow.loads(f.dumps()) has the id, the version,
\* the steps (id, action and args, in order) and the edges of f.
C21_RoundTrip == api.op = "loads" => loaded = dflow

\* a flow with a tuple among its args comes back with a list in its place, and
\* is otherwise the same
C21_Witness ==
    /\ api.op = "loads"
    /\ Len(dflow.steps) = 2
    /\ Len(dflow.edges) = 1
    /\ loaded.id = dflow.id
    /\ loaded.version = dflow.version
    /\ loaded.edges = dflow.edges
    /\ dflow.steps[1].args = MkArgs(TupleV, AbsentV, AbsentV)
    /\ loaded.steps[1].args = MkArgs(ListV, AbsentV, AbsentV)
    /\ loaded.steps[2] = dflow.steps[2]

\* C22: add_step with an id the flow has raises and leaves the flow as it
\* was; add_edge with a source or a target that no step has raises and leaves
\* the flow as it was; a call that does not raise appends the given step or
\* edge and changes nothing else.
C22_FailedCallChangesNothing ==
    [][LET c == api'
       IN /\ c.op \in {"add_step", "step"} =>
               IF c.step.id \in DeclaredIds(dflow)
               THEN c.raised /\ dflow' = dflow
               ELSE /\ ~c.raised
                    /\ dflow' = [dflow EXCEPT !.steps = Append(@, c.step)]
          /\ c.op \in {"add_edge", "edge"} =>
               IF c.edge[1] \notin DeclaredIds(dflow)
                     \/ c.edge[2] \notin DeclaredIds(dflow)
               THEN c.raised /\ dflow' = dflow
               ELSE /\ ~c.raised
                    /\ dflow' = [dflow EXCEPT !.edges = Append(@, c.edge)]]_vars

\* add_step has refused an id given twice, in a flow that has edges
C22_Witness ==
    /\ api.op = "add_step"
    /\ api.raised
    /\ Len(dflow.steps) = 2
    /\ Len(dflow.edges) = 2

\* step ids pairwise distinct, every edge between declared steps
WellFormed(flow) ==
    /\ \A i, k \in 1..Len(flow.steps) :
          flow.steps[i].id = flow.steps[k].id => i = k
    /\ \A i \in 1..Len(flow.edges) :
          /\ flow.edges[i][1] \in DeclaredIds(flow)
          /\ flow.edges[i][2] \in DeclaredIds(flow)

\* C23: every DAGFlow reached by add_step / add_edge calls (FlowBuilder's
\* step / edge included) or returned by from_dict / loads has pairwise
\* distinct step ids and only edges between declared steps.
C23_FlowsWellFormed == WellFormed(dflow) /\ WellFormed(loaded)

\* a flow built by FlowBuilder calls alone, some of them refused
C23_Witness ==
    /\ api.op = "edge"
    /\ api.raised
    /\ Len(dflow.steps) = 2
    /\ Len(dflow.edges) = 2
    /\ WellFormed(dflow)

\* how far along pending -> running -> terminal a returned status is
StatusRank(st) ==
    CASE st = "never" -> 0
      [] st = "pending" -> 1
      [] st = "running" -> 2
      [] OTHER -> 3

\* C24: the statuses successive get_status calls return for a submitted run
\* only move along pending -> running -> terminal: running is never followed
\* by pending, and once a terminal status was returned every later call
\* returns the same; an id that was never issued yields unknown.
C24_StatusMonotone ==
    [][/\ seen.rid # 0 =>
            /\ seen'.status \in {"never", "pending", "running", "done", "failed"}
            /\ StatusRank(seen'.status) >= StatusRank(seen.status)
            /\ seen.status \in {"done", "failed"} => seen'.status = seen.status
       /\ seen.rid = 0 => seen'.status \in {"never", "unknown"}]_vars

\* the last of several runs on a single pool thread was reported done, with a
\* repository that holds another status for it
C24_Witness ==
    /\ seen.rid = MaxRuns
    /\ seen.rid \in runs
    /\ orch_max_workers = 1
    /\ seen.status = "done"
    /\ rows[seen.rid].status = "running"

\* the executor call of run r raised
ExecutorRaised(r) == task[r] \in {"fail_run", "raise", "raised"}

\* C25: if the executor raises while executing a submitted flow, get_status
\* for that run eventually returns failed and never returns done.
C25_FailedRunNeverDone ==
    (seen.rid \in RunIds /\ ExecutorRaised(seen.rid)) => seen.status # "done"

\* get_status said done of a run whose executor raised and which the
\* repository holds as failed
C25_Witness ==
    /\ seen.rid \in RunIds
    /\ task[seen.rid] = "raised"
    /\ rows[seen.rid].status = "failed"
    /\ seen.status = "done"

\* C26: whenever get_result returns a value other than None the run is done
\* (get_status then returns done); for a run that is pending, running, failed
\* or unknown get_result returns None, however the background task and the
\* caller interleave.
C26_ResultOnlyWhenDone ==
    seen.result.kind \notin {"never", "none"} =>
        /\ seen.rid \in RunIds
        /\ fut[seen.rid] = "finished"
        /\ task[seen.rid] = "returned"

\* get_result handed out the result map of a run whose future is still running
C26_Witness ==
    /\ seen.rid \in RunIds
    /\ seen.result.kind = "map"
    /\ fut[seen.rid] = "running"
    /\ task[seen.rid] = "save_result"

\* C27: submit_flow returns the run id without waiting for the flow, and every
\* submitted run whose executor call comes back reaches a terminal status,
\* also with more flows submitted than the pool has threads; for a run that
\* succeeded get_status then returns done and get_result returns exactly the
\* map the executor returned (a get_status call begun then goes on to
\* fut.done() and returns done; a get_result call begun then returns the map
\* at once).
C27_SubmittedRunsFinish ==
    /\ \A r \in RunIds : (fut[r] # "none") ~> (fut[r] = "finished")
    /\ [](caller.pc = "register" => ENABLED Register)
    /\ [][(seen.rid \in RunIds /\ task[seen.rid] = "returned") =>
            /\ GetStatus => caller'.pc = "status_done"
            /\ GetStatusDone => seen'.status = "done"
            /\ GetResult => /\ caller'.pc = "idle"
                            /\ seen'.result = MapPayload(run_results[seen.rid])]_vars

\* the second of two runs on a single pool thread has succeeded and was
\* reported done with its result map, having been submitted while the first
\* run was executing
C27_Witness ==
    /\ orch_max_workers = 1
    /\ seen.rid = MaxRuns
    /\ \A r \in RunIds : task[r] = "returned"
    /\ seen.status = "done"
    /\ seen.result = MapPayload(run_results[seen.rid])
    /\ DOMAIN run_results[seen.rid] = Range(RunSteps)

\* the moves of a row's status that follow pending, running, done or failed
StatusMoves ==
    {<<"none", "pending">>, <<"pending", "running">>, <<"running", "done">>,
     <<"running", "failed">>}

\* C28: with a run repository configured, the repository's status of a run
\* goes through pending, then running, then exactly one of done (with the
\* result map saved) and failed (with the failure reason saved as the result
\* payload), and never changes after done or failed.
C28_RepoStatusPath ==
    /\ [][\A r \in RunIds :
             rows'[r].status # rows[r].status =>
                <<rows[r].status, rows'[r].status>> \in StatusMoves]_vars
    /\ [](\A r \in RunIds :
             /\ rows[r].status = "done" =>
                   /\ r \in DOMAIN orch_results
                   /\ PayloadOfJson(rows[r].result) = MapPayload(orch_results[r])
             /\ rows[r].status = "failed" =>
                   PayloadOfJson(rows[r].result) = ErrorPayload
             /\ (RepoConfigured /\ fut[r] = "finished") =>
                   rows[r].status \in {"done", "failed"})

\* a run has succeeded and is over while the repository still holds it as
\* running, save_result having raised
C28_Witness ==
    /\ RepoConfigured
    /\ \E r \in RunIds :
         /\ task[r] = "returned"
         /\ r \in DOMAIN orch_results
         /\ rows[r].status = "running"

\* C29: for a run the Orchestrator tracks in memory while a repository is
\* configured, get_status and get_result answer from the in-memory state:
\* neither returns a status or a payload taken from the repository.
C29_MemoryIsAuthoritative ==
    (RepoConfigured /\ seen.rid \in runs) =>
        /\ seen.status \in {"never", "pending", "running", "done"}
        /\ ~(seen.src = "repo" /\ seen.result.kind # "none")

\* get_result handed out the repository's error payload for a tracked run,
\* of which _results holds nothing
C29_Witness ==
    /\ RepoConfigured
    /\ seen.rid \in runs
    /\ seen.rid \notin DOMAIN orch_results
    /\ task[seen.rid] = "raised"
    /\ seen.src = "repo"
    /\ seen.result = ErrorPayload

\* the results run r's flow yields when no other run interferes: step 1 adds
\* its id to the int of run r, step 2 adds its id to step 1's result
OwnResults(r) ==
    [n \in Range(RunSteps) |-> IF n = 1 THEN IntV(10 * r + 1) ELSE IntV(10 * r + 3)]

\* the same, up to the steps that have completed
OwnResultsSoFar(r) == [n \in DOMAIN run_results[r] |-> OwnResults(r)[n]]

\* C30: two flow runs executing concurrently through one Orchestrator never
\* share a results map: a `$result.<id>` reference in one run never resolves
\* to a value the other run produced, and the failure of one run changes
\* neither the result map nor the status of the other.
C30_RunsShareNothing ==
    [][/\ \A r \in RunIds :
            /\ run_results'[r] = OwnResultsSoFar(r)'
            /\ r \in DOMAIN orch_results' => orch_results'[r] = OwnResults(r)
       /\ \A r, q \in RunIds :
            (r # q /\ ~ExecutorRaised(r) /\ ExecutorRaised(r)') =>
                /\ run_results'[q] = run_results[q]
                /\ fut'[q] = fut[q]
                /\ task'[q] = task[q]
                /\ rows'[q] = rows[q]
                /\ orch_results' = orch_results]_vars

\* two runs are inside run_dagflow at once, each holding a result for step 1
C30_Witness ==
    \E r, q \in RunIds :
        /\ r # q
        /\ task[r] = "run_dagflow"
        /\ task[q] = "run_dagflow"
        /\ DOMAIN run_results[r] = {1}
        /\ DOMAIN run_results[q] = {1}

\* the places of an event in the run's trace
Positions(name, n) == {i \in DOMAIN trace : trace[i] = Event(name, n)}

\* the event is in the trace once
Once(name, n) == Cardinality(Positions(name, n)) = 1

\* the place of an event that is in the trace once
Position(name, n) == CHOOSE i \in Positions(name, n) : TRUE

\* C31: the trace of a LocalExecutor run that returned starts with
\* flow_started and ends with flow_completed, holds for every step one
\* step_started and, later, one step_completed, and for every edge (a, b)
\* step_completed of a before step_started of b; a run that fails on a
\* step's failed action or on a step's timeout has recorded step_failed,
\* or step_timeout, for that step, and no failing run records
\* flow_completed.
C31_TraceOfRun ==
    Local =>
      /\ pc = "returned" =>
            /\ trace # <<>>
            /\ Head(trace) = Event("flow_started", 0)
            /\ trace[Len(trace)] = Event("flow_completed", 0)
            /\ Once("flow_started", 0)
            /\ Once("flow_completed", 0)
            /\ \A n \in Nodes :
                  /\ Once("step_started", n)
                  /\ Once("step_completed", n)
                  /\ Position("step_started", n) < Position("step_completed", n)
            /\ \A i \in DOMAIN edges :
                  Position("step_completed", edges[i][1])
                     < Position("step_started", edges[i][2])
      /\ error.kind = "step_failed" => Positions("step_failed", error.step) # {}
      /\ error.kind = "timeout" => Positions("step_timeout", error.step) # {}
      /\ error # NoError => Positions("flow_completed", 0) = {}

\* a run of a -> b returned after a retry of a, with its seven events
C31_Witness ==
    /\ Local
    /\ pc = "returned"
    /\ steps = <<1, 2>>
    /\ edges = <<<<1, 2>>>>
    /\ trace = <<Event("flow_started", 0), Event("step_started", 1),
                 Event("step_retry", 1), Event("step_completed", 1),
                 Event("step_started", 2), Event("step_completed", 2),
                 Event("flow_completed", 0)>>


\* the state of a machine built by add_state that has the id
StateOf(id) == CHOOSE st \in Range(states) : st.id = id

\* the states a run goes through from event k on, at state cur, each with
\* the event it meets there: it stops behind the first event that has no
\* transition from the state it meets
RECURSIVE Follow(_, _)
Follow(k, cur) ==
    IF k > Len(events) \/ ~HasState(states, cur) THEN <<>>
    ELSE <<StateActionValue(events[k], cur)>>
           \o (IF events[k] \in DOMAIN StateOf(cur).on
               THEN Follow(k + 1, StateOf(cur).on[events[k]])
               ELSE <<>>)

\* the invocations the claim expects of a run: those of Follow at states
\* that have an action
ExpectedInvocations ==
    SelectSeq(Follow(1, start_state), LAMBDA v : StateOf(v.state).action # "none")

IsPrefix(p, q) == Len(p) <= Len(q) /\ \A i \in 1..Len(p) : p[i] = q[i]

\* the last invocation of the action of state id
LastInvocation(id) ==
    invoked[CHOOSE i \in DOMAIN invoked :
               /\ invoked[i].state = id
               /\ \A j \in DOMAIN invoked : invoked[j].state = id => j <= i]

\* C32: the first added state is the start state unless start_state was
\* set; a run of StateMachine.run invokes, event by event from start_state
\* and along the transitions, the action of the current state with the
\* event, up to and including the first event without a transition and
\* never for a later one; the map it returns holds exactly the states whose
\* action was invoked, each with what its last invocation returned.
C32_StateMachineRun ==
    /\ [](pc \in {"sm_run", "returned", "raised"} =>
            /\ IsPrefix(invoked, ExpectedInvocations)
            /\ pc = "returned" =>
                  /\ invoked = ExpectedInvocations
                  /\ DOMAIN sm_results = {invoked[i].state : i \in DOMAIN invoked}
                  /\ \A id \in DOMAIN sm_results :
                        sm_results[id] = LastInvocation(id))
    /\ [][/\ (states = <<>> /\ states' # <<>> /\ start_state = NoState)
                => start_state' = states'[1].id
          /\ (states' # states /\ start_state # NoState)
                => start_state' = start_state
          /\ (pc = "sm_build" /\ pc' = "sm_run") => current' = start_state]_vars

\* a run that went from the first added state to the second and back,
\* stopped at the third of its three events, and returned both states
C32_Witness ==
    /\ pc = "returned"
    /\ Len(states) = 2
    /\ start_state = states[1].id
    /\ events = <<"go", "go", "stop">>
    /\ ev_next = 3
    /\ Len(invoked) = 3
    /\ invoked[1].state = invoked[3].state
    /\ invoked[2].state # invoked[1].state
    /\ DOMAIN sm_results = StateIds

\* no step was given a reserved key
NoReservedKeys == \A n \in Nodes : DOMAIN args_of[n] \cap ReservedKeys = {}

\* C33: for a valid DAG whose steps carry no reserved key, run without
\* guards, the map a run returns is the map DAGFlow.run returns, whichever
\* executor ran it; every step's action is invoked once, and only when all
\* its predecessors have results.
C33_ExecutorsAgree ==
    (mode \in Executors /\ ValidFlow /\ guards = <<>> /\ NoReservedKeys) =>
      /\ pc = "returned" =>
            /\ results = DagRunResults
            /\ \A n \in Nodes : calls[n] = 1
      /\ \A n \in Nodes : calls[n] > 0 => Predecessors(n) \subseteq DOMAIN results

\* a DummyRemoteExecutor returned the map of a flow whose second step takes
\* the result of the first over an edge
C33_Witness ==
    /\ mode = "remote"
    /\ pc = "returned"
    /\ steps = <<1, 2>>
    /\ edges = <<<<1, 2>>>>
    /\ args_of[2] = MkArgs(RefV(1), AbsentV, AbsentV)
    /\ results = DagRunResults
    /\ results[2] = IntV(3)

\* C34: the step of the dispatch loop that takes a successor's in-degree
\* to zero submits that successor (or fails the run on its missing action
\* or its pre-step guard), whatever else is outstanding; when the loop
\* waits, no step with in-degree zero is unsubmitted; and its wait returns
\* as soon as any outstanding step is done, whichever it is.
C34_DispatchAtOnce ==
    /\ [][(Local /\ pc = "release" /\ succq # <<>> /\ succq' = Tail(succq)
             /\ incoming'[Head(succq)] = 0)
            => \/ /\ wstate[Head(succq)] = "none"
                  /\ wstate'[Head(succq)] = "queued"
                  /\ futures' = Append(futures, Head(succq))
                  /\ pc' = "release"
               \/ /\ pc' = "unwind"
                  /\ error'.kind \in {"action_not_found", "guard_pre"}
                  /\ error'.step = Head(succq)]_vars
    /\ []((Local /\ pc = "loop") =>
            /\ \A n \in Nodes : incoming[n] = 0 => Submitted(n)
            /\ (\E n \in Range(futures) : Finished(n)) => ENABLED WaitAny)

\* a successor was submitted on the completion of its last predecessor
\* while a step submitted before that one is still running
C34_Witness ==
    /\ Local
    /\ pc = "release"
    /\ steps = <<1, 2, 3>>
    /\ edges = <<<<2, 3>>>>
    /\ wstate = [n \in Nodes |-> CASE n = 1 -> "running" [] n = 2 -> "ok"
                                   [] OTHER -> "queued"]
    /\ futures = <<1, 3>>
    /\ incoming[3] = 0

\* C35: a run fails with a timeout for a step only if the step's action
\* was still running when more than the step's timeout had gone by since
\* its dispatch: a step whose action finished before that is never the
\* step a timeout error names.
C35_NoFalseTimeout ==
    (Local /\ error.kind = "timeout" /\ Finished(error.step)) => late[error.step]

\* the run failed with a timeout for a step whose action had returned
\* within its timeout, while the loop was processing another completion
C35_Witness ==
    /\ Local
    /\ error.kind = "timeout"
    /\ wstate[error.step] = "ok"
    /\ ~late[error.step]
    /\ wres[error.step] # NoneV
    /\ error.step \notin DOMAIN results
    /\ DOMAIN results # {}

RECURSIVE Sum(_)
Sum(q) == IF q = <<>> THEN 0 ELSE Head(q) + Sum(Tail(q))

\* how long the step's attempts and backoff sleeps lasted together
Elapsed == Sum(durations) + Sum(sleeps)

\* C36: the time the timeout scan measures for a step runs from the
\* step's dispatch through all its attempts and sleeps; a step whose
\* attempts and sleeps together lasted longer than its timeout fails the
\* run with the timeout error, however short each attempt was.
C36_TimeoutSpansRetries ==
    /\ pc # "t_submit" => clock - start_ts >= Elapsed
    /\ (pc \in {"returned", "raised"} /\ \E t \in timeout : Elapsed > t)
          => /\ pc = "raised"
             /\ error = FlowError("timeout", 1, timeout)

\* two attempts of one tick each and a sleep of two ticks between them
\* outlasted a timeout of three ticks: the run failed with the timeout
\* although the second attempt returned
C36_Witness ==
    /\ pc = "raised"
    /\ error = FlowError("timeout", 1, {3})
    /\ durations = <<1, 1>>
    /\ sleeps = <<2>>
    /\ outcome = Returned

RECURSIVE Pow(_, _)
Pow(m, e) == IF e = 0 THEN 1 ELSE m * Pow(m, e - 1)

\* C37: _run_with_retries sleeps after every failed attempt but the last,
\* the i-th sleep lasting backoff * multiplier^(i-1); it never sleeps after
\* attempt max_attempts, and the exception it lets through is the one of
\* attempt max_attempts.
C37_BackoffSchedule ==
    /\ \A i \in DOMAIN sleeps :
          sleeps[i] = retry_policy.backoff * Pow(retry_policy.multiplier, i - 1)
    /\ Len(sleeps) < retry_policy.max_attempts
    /\ Len(sleeps) = IF outcome.state \in {"sleeping", "ok", "exc"}
                     THEN n_attempts - 1 ELSE n_attempts
    /\ outcome.state = "exc" =>
          /\ n_attempts = retry_policy.max_attempts
          /\ outcome.exc = retry_policy.max_attempts

\* three failed attempts under (3, 2, 2): sleeps of 2 and 4, none after the
\* third, whose exception is the one raised
C37_Witness ==
    /\ retry_policy = RetryPolicyOf(3, 2, 2)
    /\ outcome = Raised(3)
    /\ sleeps = <<2, 4>>
    /\ n_attempts = 3
    /\ pc = "raised"
    /\ error.kind \in {"step_failed", "timeout"}

\* a step of a pool thread: a work item is taken up, or _run_with_retries
\* returns or raises in it
WorkerStep ==
    \E n \in Nodes : wstate'[n] # wstate[n] /\ wstate'[n] \in {"running", "ok", "exc"}

\* where the thread that called run_dagflow stands when it writes
LoopWrites == {"build", "submit_initial", "process", "release"}

\* the step puts nid into the futures table
Submits(nid) == nid \notin Range(futures) /\ nid \in Range(futures')

\* C38: in LocalExecutor.run_dagflow a step of a pool thread leaves the
\* results map, the in-degree counters and the futures table as they are
\* and does not move the dispatch loop; whatever changes one of the three
\* is a step of the dispatch loop. The args of a step are resolved in a
\* step of the dispatch loop against the results map as it stands, in
\* which every entry is a value run_post returned and no entry changes
\* during the resolution.
C38_SingleWriter ==
    /\ [][(Local /\ WorkerStep) =>
            UNCHANGED <<results, incoming, futures, pc>>]_vars
    /\ [][(Local /\ <<results, incoming, futures>>' # <<results, incoming, futures>>) =>
            pc \in LoopWrites /\ ~WorkerStep]_vars
    /\ [][\A nid \in Nodes : (Local /\ Submits(nid)) =>
            /\ pc \in {"submit_initial", "release"}
            /\ ~WorkerStep
            /\ results' = results
            /\ \E deny \in Denials(guards) :
                 LET pre == run_pre(guards, deny, ResolveArgs(args_of'[nid], results))
                 IN pre.status # "raised"
                      /\ kwargs'[nid] = StripReserved(pre.cur)]_vars
    /\ [](Local => \A n \in DOMAIN results :
            \E deny \in Denials(guards) :
                results[n] = run_post(guards, deny, wres[n]).cur)

\* step 2 was submitted with the result recorded for step 1, which is
\* what the post-step guard made of it; the action of step 2 has returned
\* in its pool thread and nothing is recorded for it yet
C38_Witness ==
    /\ Local
    /\ steps = <<1, 2>>
    /\ edges = <<<<1, 2>>>>
    /\ guards = <<"post_bump">>
    /\ DOMAIN results = {1}
    /\ results[1] = IntV(2)
    /\ wres[1] = IntV(1)
    /\ args_of[2] = MkArgs(RefV(1), AbsentV, AbsentV)
    /\ kwargs[2] = MkArgs(IntV(2), AbsentV, AbsentV)
    /\ wstate[2] = "ok"
    /\ futures = <<2>>

\* C39: once cancel(schedule_id) has returned, _timers holds no Timer
\* for the schedule and submit_flow is not called for it again.
C39_CancelIsFinal ==
    /\ [](\A s \in Schedules : cancel_pc[s] = "returned" => timers[s] = NoTimer)
    /\ [][\A s \in Schedules :
            cancel_pc[s] = "returned" => submits'[s] = submits[s]]_vars

\* cancel popped and cancelled t0 while the _tick of t0 was running, and
\* returned; the _tick registered and started the next Timer
C39_Witness ==
    /\ cancel_pc[1] = "returned"
    /\ cancel_t[1] = 1
    /\ timer_state[1][1] = "fired"
    /\ timers[1] = 2
    /\ timer_state[1][2] = "started"
    /\ submits[1] = 1

\* C40: no caller of a blocking put or get waits on the condition for ever
\* while its operation can go ahead: a put while the queue is not full, a
\* get while the queue is not empty.
C40_NoLostWakeup ==
    \A c \in Callers : []<>(call_pc[c] # "waiting" \/ MustWait(c))

\* nothing can happen any more: a put and a get both wait on the
\* condition of an empty queue of maxsize 1, the other put and get returned
C40_Witness ==
    /\ maxsize = 1
    /\ deque = <<>>
    /\ cond_owner = NoCaller
    /\ \E p, g \in Callers :
         /\ call_op[p] = "put"
         /\ call_op[g] = "get"
         /\ call_pc[p] = "waiting"
         /\ call_pc[g] = "waiting"
         /\ \A c \in Callers \ {p, g} : call_pc[c] = "done"
    /\ ~ENABLED QueueNext

TypeOK ==
    /\ pc \in {"build", "submit_initial", "loop", "process", "release", "unwind",
               "returned", "raised", "toposort", "seq_run", "hooks", "api",
               "orch", "sm_build", "sm_run", "t_submit", "t_wait", "sched", "queue"}
    /\ DOMAIN results \subseteq Nodes

====
